---- MODULE Spec2Model ----
(***************************************************************************)
(* Model of the ICS generation code of rds-ws-catalogue:                   *)
(*   assets/js/ical-generator.js  (class ICalGenerator, browser)           *)
(*   scripts/generate-ics.js      (class ICalGenerator, batch copy)        *)
(*   add-to-calendar helper       (class AddToCalendar)                    *)
(*   assets/js/app.js             (createAddToCalendarButton)              *)
(*                                                                         *)
(* A JavaScript string is a sequence of tokens.  A token is one character  *)
(* ("a", ";", "\n", ...) or a literal piece of a template ("BEGIN:VEVENT", *)
(* "UID:", ...).  The line break of a document is the token "\n", so what  *)
(* a value puts on a line, or on a new line, is decided by its tokens.     *)
(***************************************************************************)
EXTENDS Integers, Sequences, FiniteSets, TLC

VARIABLES data, tz, now, out, text, escaped, store, files, app

vars == <<data, tz, now, out, text, escaped, store, files, app>>

(***************************************************************************)
(* Bounds of the model.                                                    *)
(***************************************************************************)
\* longest text handed to escapeText on its own
MaxLen == 3
\* longest workshop list handed to generate
MaxList == 2
\* most offerings in a dataset of the structural family
MaxOfferings == 3
\* the clock runs over the seconds 0..MaxSec
MaxSec == 1
\* most object URLs registered in a run
MaxStore == 2

(***************************************************************************)
(* JavaScript values.                                                      *)
(***************************************************************************)
\* the values undefined and null (no text contains these tokens)
Undefined == <<"#undefined">>
Null == <<"#null">>

NL == "\n"
CR == "\r"
BS == "\\"

\* !x for a string, undefined or null
Falsy(x) == x = <<>> \/ x = Undefined \/ x = Null

\* x || y
OrElse(x, y) == IF Falsy(x) THEN y ELSE x

\* `${x}`: the text a template literal puts for x
ToStr(x) == IF x = Undefined THEN <<"undefined">>
            ELSE IF x = Null THEN <<"null">> ELSE x

\* the concatenation of ss[lo], ..., ss[hi]
RECURSIVE Concat(_, _, _)
Concat(ss, lo, hi) ==
    IF lo > hi THEN <<>>
    ELSE IF lo = hi THEN ss[lo]
    ELSE LET mid == (lo + hi) \div 2
         IN  Concat(ss, lo, mid) \o Concat(ss, mid + 1, hi)

Flatten(ss) == Concat(ss, 1, Len(ss))

\* s.replace(/c/g, r)
ReplaceAll(s, c, r) ==
    Flatten([i \in 1..Len(s) |-> IF s[i] = c THEN r ELSE <<s[i]>>])

\* ss.join(sep)
Join(ss, sep) ==
    Flatten([i \in 1..Len(ss) |-> IF i = 1 THEN ss[i] ELSE sep \o ss[i]])

\* ss.filter(Boolean)
FilterBoolean(ss) == SelectSeq(ss, LAMBDA x : ~Falsy(x))

Digit(n) == CASE n = 0 -> "0" [] n = 1 -> "1" [] n = 2 -> "2" [] n = 3 -> "3"
              [] n = 4 -> "4" [] n = 5 -> "5" [] n = 6 -> "6" [] n = 7 -> "7"
              [] n = 8 -> "8" [] n = 9 -> "9"

\* sequences over S of length at most n
SeqsUpTo(S, n) == UNION { [1..k -> S] : k \in 0..n }

Range(f) == { f[x] : x \in DOMAIN f }

\* String(n) for n >= 0
RECURSIVE NumStr(_)
NumStr(n) == IF n < 10 THEN <<Digit(n)>> ELSE NumStr(n \div 10) \o <<Digit(n % 10)>>

\* s.padStart(2, '0')
PadStart2(s) == IF Len(s) >= 2 THEN s ELSE IF Len(s) = 1 THEN <<"0">> \o s ELSE <<"0", "0">>

(***************************************************************************)
(* Date.  An instant is a number of milliseconds counted from              *)
(* 2025-03-10T00:00:00Z (instants of the real epoch do not fit TLC's       *)
(* integers); tz is the offset in milliseconds of the local zone of the    *)
(* JavaScript runtime.  The calendar is that of the year 2025.             *)
(***************************************************************************)
MsPerSecond == 1000
MsPerMinute == 60 * MsPerSecond
MsPerHour == 60 * MsPerMinute
MsPerDay == 24 * MsPerHour

Epoch == [year |-> 2025, doy |-> 69]
DaysInMonth == <<31, 28, 31, 30, 31, 30, 31, 31, 30, 31, 30, 31>>

\* the fields of the date read in UTC, as getUTCHours() and the like do
LocalMsUtc(t) == t

\* the local wall-clock reading of instant t
LocalMs(t) == t + tz

\* (month 0..11, day of month) of the doy-th day of the year
RECURSIVE MonthDay(_, _)
MonthDay(doy, m) ==
    IF doy <= DaysInMonth[m + 1] THEN [month |-> m, date |-> doy]
    ELSE MonthDay(doy - DaysInMonth[m + 1], m + 1)

LocalDoy(t) == Epoch.doy + (LocalMs(t) \div MsPerDay)

getFullYear(t) == Epoch.year
getMonth(t) == MonthDay(LocalDoy(t), 0).month
getDate(t) == MonthDay(LocalDoy(t), 0).date
getHours(t) == (LocalMs(t) % MsPerDay) \div MsPerHour
getMinutes(t) == (LocalMs(t) % MsPerHour) \div MsPerMinute
getSeconds(t) == (LocalMs(t) % MsPerMinute) \div MsPerSecond

\* days of the year before the first of month mo (1..12)
RECURSIVE DaysBefore(_)
DaysBefore(mo) == IF mo = 1 THEN 0 ELSE DaysInMonth[mo - 1] + DaysBefore(mo - 1)

\* NewDate reading the clock, as new Date() does, instead of its argument
NewDateNow(s) == now

\* new Date(s) for an ISO date-time s of 2025, written here as its fields
\* [mo, d, h, mi, s, z]: z = "Z" is a UTC time, z = "" a local time
NewDate(s) ==
    (DaysBefore(s.mo) + s.d - Epoch.doy) * MsPerDay
      + s.h * MsPerHour + s.mi * MsPerMinute + s.s * MsPerSecond
      - (IF s.z = "Z" THEN 0 ELSE tz)

(***************************************************************************)
(* class ICalGenerator (assets/js/ical-generator.js; scripts/generate-ics.js *)
(* holds the same methods).                                                *)
(***************************************************************************)
\* formatDate(date): YYYYMMDDTHHMMSS of the local fields
formatDate(date) ==
    NumStr(getFullYear(date))
      \o PadStart2(NumStr(getMonth(date) + 1))
      \o PadStart2(NumStr(getDate(date)))
      \o <<"T">>
      \o PadStart2(NumStr(getHours(date)))
      \o PadStart2(NumStr(getMinutes(date)))
      \o PadStart2(NumStr(getSeconds(date)))

\* a page without options in its selects
NoLookups ==
    [areas |-> <<>>, audiences |-> <<>>, formats |-> <<>>, departments |-> <<>>,
     instructors |-> <<>>]

\* what calling a method of undefined or null gives
TypeError == <<"#TypeError">>

\* escapeText without the test of its argument
escapeTextUnguarded(t) ==
    IF t \in {Undefined, Null} THEN TypeError
    ELSE ReplaceAll(
           ReplaceAll(
             ReplaceAll(
               ReplaceAll(
                 ReplaceAll(t, BS, <<BS, BS>>),
                 ";", <<BS, ";">>),
               ",", <<BS, ",">>),
             NL, <<BS, "n">>),
           CR, <<>>)

\* escapeText replacing the backslash last, after the replacements that
\* put backslashes in
escapeTextBackslashLast(t) ==
    IF Falsy(t) THEN <<>>
    ELSE ReplaceAll(
           ReplaceAll(
             ReplaceAll(
               ReplaceAll(
                 ReplaceAll(t, ";", <<BS, ";">>),
                 ",", <<BS, ",">>),
               NL, <<BS, "n">>),
             CR, <<>>),
           BS, <<BS, BS>>)

\* escapeText(text): the five replacements, in the order of the code
escapeText(t) ==
    IF Falsy(t) THEN <<>>
    ELSE ReplaceAll(
           ReplaceAll(
             ReplaceAll(
               ReplaceAll(
                 ReplaceAll(t, BS, <<BS, BS>>),
                 ";", <<BS, ";">>),
               ",", <<BS, ",">>),
             NL, <<BS, "n">>),
           CR, <<>>)

\* items.find(x => x.id === id): <<x>> for the first hit, <<>> (undefined)
\* when there is none
Find(items, id) ==
    LET hits == SelectSeq(items, LAMBDA x : x.id = id)
    IN  IF hits = <<>> THEN <<>> ELSE <<hits[1]>>

\* ResolveAll putting the text 'undefined' for an id that is not found
ResolveAllKeepMissing(items, ids, field) ==
    [k \in 1..Len(ids) |->
        LET hit == Find(items, ids[k])
        IN  IF hit = <<>> THEN <<"undefined">> ELSE hit[1][field]]

\* ids.map(id => items.find(x => x.id === id)?.[field])
ResolveAll(items, ids, field) ==
    [k \in 1..Len(ids) |->
        LET hit == Find(items, ids[k])
        IN  IF hit = <<>> THEN Undefined ELSE hit[1][field]]

\* DescriptionBody without the fallbacks
DescriptionBodyNoFallback(workshop) == ToStr(workshop.description)

\* let desc = workshop.description || workshop.summary || ''
DescriptionBody(workshop) ==
    OrElse(workshop.description, OrElse(workshop.summary, <<>>))

\* buildDescription(workshop, offering)
buildDescription(workshop, offering) ==
    LET desc0 == DescriptionBody(workshop)
        format == Find(data.formats, workshop.format_id)
        instructors ==
            Join(FilterBoolean(ResolveAll(data.instructors, workshop.instructor_ids, "name")),
                 <<",", " ">>)
        areas ==
            Join(FilterBoolean(ResolveAll(data.areas, workshop.area_ids, "label")),
                 <<",", " ">>)
    IN  desc0
          \o <<NL, NL, "---", NL>>
          \o (IF format # <<>>
                THEN <<"Format: ">> \o ToStr(format[1].label) \o <<NL>> ELSE <<>>)
          \o (IF ~Falsy(instructors)
                THEN <<"Instructor(s): ">> \o instructors \o <<NL>> ELSE <<>>)
          \o (IF ~Falsy(areas)
                THEN <<"Research Area(s): ">> \o areas \o <<NL>> ELSE <<>>)
          \o (IF ~Falsy(offering.quarter)
                THEN <<"Quarter: ">> \o ToStr(offering.quarter) \o <<" ">>
                       \o ToStr(offering.year) \o <<NL>>
                ELSE <<>>)
          \o (IF ~Falsy(offering.registration_url)
                THEN <<NL, "Register: ">> \o ToStr(offering.registration_url) ELSE <<>>)

\* UidLine taking the id of the workshop for the id of the offering
UidLineOfWorkshop(offering) ==
    <<"UID:", offering.workshop_id, "@rds-workshops.ucsb.edu", NL>>

\* the UID line of the template of createEvent
UidLine(offering) ==
    <<"UID:">> \o ToStr(offering.id) \o <<"@rds-workshops.ucsb.edu", NL>>

\* Alarm putting the title in its DESCRIPTION as it is, not escaped
AlarmRawTitle(trigger, title, when) ==
    <<"BEGIN:VALARM", NL>>
      \o <<trigger, NL>>
      \o <<"ACTION:DISPLAY", NL>>
      \o <<"DESCRIPTION:", "Reminder: ">> \o ToStr(title) \o <<when, NL>>
      \o <<"END:VALARM", NL>>

\* one VALARM block of the template of createEvent
Alarm(trigger, title, when) ==
    <<"BEGIN:VALARM", NL>>
      \o <<trigger, NL>>
      \o <<"ACTION:DISPLAY", NL>>
      \o <<"DESCRIPTION:", "Reminder: ">> \o escapeText(title) \o <<when, NL>>
      \o <<"END:VALARM", NL>>

\* the template literal of createEvent for one offering; stamp is what
\* new Date() returns when the template is evaluated
VEvent(workshop, offering, stamp) ==
    LET start == NewDate(offering.start)
        end == NewDate(offering.end)
        description == buildDescription(workshop, offering)
        location == OrElse(offering.location, <<"TBA">>)
        url == OrElse(offering.registration_url, <<>>)
    IN  <<"BEGIN:VEVENT", NL>>
          \o UidLine(offering)
          \o <<"DTSTAMP:">> \o formatDate(stamp) \o <<NL>>
          \o <<"DTSTART:">> \o formatDate(start) \o <<NL>>
          \o <<"DTEND:">> \o formatDate(end) \o <<NL>>
          \o <<"SUMMARY:">> \o escapeText(workshop.title) \o <<NL>>
          \o <<"DESCRIPTION:">> \o escapeText(description) \o <<NL>>
          \o <<"LOCATION:">> \o escapeText(location)
          \o (IF ~Falsy(url) THEN <<NL, "URL:">> \o url ELSE <<>>) \o <<NL>>
          \o <<"STATUS:CONFIRMED", NL>>
          \o <<"SEQUENCE:0", NL>>
          \o Alarm("TRIGGER:-PT24H", workshop.title, " tomorrow")
          \o Alarm("TRIGGER:-PT1H", workshop.title, " in 1 hour")
          \o <<"END:VEVENT">>

\* this.data.offerings.filter(o => o.workshop_id === workshop.id)
OfferingsOf(workshop) ==
    SelectSeq(data.offerings, LAMBDA o : o.workshop_id = workshop.id)

\* The k-th evaluation of new Date() in a call that starts at instant t0:
\* the clock shows t0 for the first `same` readings and the next second after
ClockRead(k, t0, same) == IF k <= same THEN t0 ELSE t0 + MsPerSecond

\* createEvent making an event of the first offering only
createEventFirstOnly(workshop, reads, t0, same) ==
    LET offerings == OfferingsOf(workshop)
    IN  IF Len(offerings) = 0 THEN Null
        ELSE VEvent(workshop, offerings[1], ClockRead(reads + 1, t0, same))

\* createEvent(workshop); `reads` readings of the clock came before it
createEvent(workshop, reads, t0, same) ==
    LET offerings == OfferingsOf(workshop)
    IN  IF Len(offerings) = 0 THEN Null
        ELSE Join([k \in 1..Len(offerings) |->
                      VEvent(workshop, offerings[k], ClockRead(reads + k, t0, same))],
                  <<NL>>)

\* wrapInCalendar closing the calendar only when there are events
wrapInCalendarOpen(events) ==
    <<"BEGIN:VCALENDAR", NL,
      "VERSION:2.0", NL,
      "PRODID:-//UCSB Library//RDS Workshops//EN", NL,
      "CALSCALE:GREGORIAN", NL,
      "METHOD:PUBLISH", NL,
      "X-WR-CALNAME:RDS Workshops", NL,
      "X-WR-TIMEZONE:America/Los_Angeles", NL,
      "X-WR-CALDESC:Research Data Services Workshop Catalogue">>
      \o (IF events = <<>> THEN <<>> ELSE <<NL>> \o events \o <<NL, "END:VCALENDAR">>)

\* wrapInCalendar(events)
wrapInCalendar(events) ==
    <<"BEGIN:VCALENDAR", NL,
      "VERSION:2.0", NL,
      "PRODID:-//UCSB Library//RDS Workshops//EN", NL,
      "CALSCALE:GREGORIAN", NL,
      "METHOD:PUBLISH", NL,
      "X-WR-CALNAME:RDS Workshops", NL,
      "X-WR-TIMEZONE:America/Los_Angeles", NL,
      "X-WR-CALDESC:Research Data Services Workshop Catalogue", NL>>
      \o events \o <<NL, "END:VCALENDAR">>

\* the number of offerings of the first n workshops of the list
RECURSIVE ReadsBefore(_, _)
ReadsBefore(workshops, n) ==
    IF n = 0 THEN 0
    ELSE ReadsBefore(workshops, n - 1) + Len(OfferingsOf(workshops[n]))

\* generate(workshops), called at instant t0
generate(workshops, t0, same) ==
    LET events == FilterBoolean(
                    [i \in 1..Len(workshops) |->
                        createEvent(workshops[i], ReadsBefore(workshops, i - 1), t0, same)])
    IN  wrapInCalendar(Join(events, <<NL>>))

(***************************************************************************)
(* WorkshopCatalogue.createAddToCalendarButton (assets/js/app.js): the     *)
(* event record handed to AddToCalendar for one offering.                  *)
(***************************************************************************)
EventOf(offering) ==
    LET found == Find(data.workshops, offering.workshop_id)
        workshop == found[1]
        format == Find(data.formats, workshop.format_id)
        instructors ==
            Join(FilterBoolean(ResolveAll(data.instructors, workshop.instructor_ids, "name")),
                 <<",", " ">>)
        description ==
            OrElse(workshop.description, OrElse(workshop.summary, <<>>))
              \o <<NL, NL, "---", NL>>
              \o (IF format # <<>>
                    THEN <<"Format: ">> \o ToStr(format[1].label) \o <<NL>> ELSE <<>>)
              \o (IF ~Falsy(instructors)
                    THEN <<"Instructor(s): ">> \o instructors \o <<NL>> ELSE <<>>)
              \o (IF ~Falsy(offering.registration_url)
                    THEN <<NL, "Register: ">> \o ToStr(offering.registration_url) ELSE <<>>)
    IN  IF found = <<>> THEN <<>>
        ELSE <<[title |-> workshop.title,
                description |-> description,
                location |-> OrElse(offering.location, <<"TBA">>),
                start |-> NewDate(offering.start),
                end |-> NewDate(offering.end),
                url |-> OrElse(offering.registration_url, <<>>)]>>

(***************************************************************************)
(* class AddToCalendar.                                                    *)
(***************************************************************************)
\* generateICS(event) called at instant t0: Date.now() and new Date() both
\* read the clock at t0
generateICS(event, t0) ==
    <<"BEGIN:VCALENDAR", NL,
      "VERSION:2.0", NL,
      "PRODID:-//UCSB Library//RDS Workshops//EN", NL,
      "CALSCALE:GREGORIAN", NL,
      "METHOD:PUBLISH", NL,
      "BEGIN:VEVENT", NL>>
      \o <<"UID:">> \o NumStr(t0) \o <<"@rds-workshops.ucsb.edu", NL>>
      \o <<"DTSTAMP:">> \o formatDate(t0) \o <<NL>>
      \o <<"DTSTART:">> \o formatDate(event.start) \o <<NL>>
      \o <<"DTEND:">> \o formatDate(event.end) \o <<NL>>
      \o <<"SUMMARY:">> \o escapeText(event.title) \o <<NL>>
      \o <<"DESCRIPTION:">> \o escapeText(event.description) \o <<NL>>
      \o <<"LOCATION:">> \o escapeText(event.location)
      \o (IF ~Falsy(event.url) THEN <<NL, "URL:">> \o event.url ELSE <<>>) \o <<NL>>
      \o <<"STATUS:CONFIRMED", NL>>
      \o <<"BEGIN:VALARM", NL>>
      \o <<"TRIGGER:-PT24H", NL>>
      \o <<"ACTION:DISPLAY", NL>>
      \o <<"DESCRIPTION:", "Reminder: ">> \o escapeText(event.title) \o <<" tomorrow", NL>>
      \o <<"END:VALARM", NL>>
      \o <<"BEGIN:VALARM", NL>>
      \o <<"TRIGGER:-PT1H", NL>>
      \o <<"ACTION:DISPLAY", NL>>
      \o <<"DESCRIPTION:", "Reminder: ">> \o escapeText(event.title) \o <<" in 1 hour", NL>>
      \o <<"END:VALARM", NL>>
      \o <<"END:VEVENT", NL>>
      \o <<"END:VCALENDAR">>

\* Math.floor(a / b) for b > 0
Floor(a, b) == a \div b

\* a % b of JavaScript for b > 0: the remainder has the sign of a
Rem(a, b) == IF a >= 0 THEN a % b ELSE 0 - ((0 - a) % b)

\* String(n) for an integer n
String(n) == IF n < 0 THEN <<"-">> \o NumStr(0 - n) ELSE NumStr(n)

\* s.padStart(3, '0') for the milliseconds of toISOString
PadStart3(s) == IF Len(s) >= 3 THEN s ELSE IF Len(s) = 2 THEN <<"0">> \o s ELSE <<"0">> \o PadStart2(s)

\* date.toISOString(): YYYY-MM-DDTHH:MM:SS.mmmZ of the UTC fields
toISOString(date) ==
    LET md == MonthDay(Epoch.doy + (date \div MsPerDay), 0)
    IN  NumStr(Epoch.year) \o <<"-">>
          \o PadStart2(NumStr(md.month + 1)) \o <<"-">>
          \o PadStart2(NumStr(md.date)) \o <<"T">>
          \o PadStart2(NumStr((date % MsPerDay) \div MsPerHour)) \o <<":">>
          \o PadStart2(NumStr((date % MsPerHour) \div MsPerMinute)) \o <<":">>
          \o PadStart2(NumStr((date % MsPerMinute) \div MsPerSecond)) \o <<".">>
          \o PadStart3(NumStr(date % MsPerSecond)) \o <<"Z">>

\* s.split(sep)[0]
BeforeFirst(s, sep) ==
    LET hits == { i \in 1..Len(s) : s[i] = sep }
    IN  IF hits = {} THEN s
        ELSE SubSeq(s, 1, (CHOOSE i \in hits : \A j \in hits : i <= j) - 1)

\* formatGoogleDate taking the local fields of the date
formatGoogleDateLocal(date) == formatDate(date) \o <<"Z">>

\* formatGoogleDate(date)
formatGoogleDate(date) ==
    BeforeFirst(ReplaceAll(ReplaceAll(toISOString(date), "-", <<>>), ":", <<>>), ".")
      \o <<"Z">>

\* formatYahooDate(date)
formatYahooDate(date) ==
    BeforeFirst(ReplaceAll(ReplaceAll(toISOString(date), "-", <<>>), ":", <<>>), ".")
      \o <<"Z">>

\* formatDuration writing the minutes before the hours
formatDurationMinutesFirst(minutes) ==
    PadStart2(String(Rem(minutes, 60))) \o PadStart2(String(Floor(minutes, 60)))

\* formatDuration(minutes)
formatDuration(minutes) ==
    LET hours == Floor(minutes, 60)
        mins == Rem(minutes, 60)
    IN  PadStart2(String(hours)) \o PadStart2(String(mins))

\* what URLSearchParams.toString() writes for one token of a value: letters,
\* digits and * - . _ are kept, the space becomes +, every other character
\* its percent code
UrlEncodeToken(c) ==
    CASE c = ";" -> "%3B"
      [] c = "," -> "%2C"
      [] c = NL -> "%0A"
      [] c = CR -> "%0D"
      [] c = BS -> "%5C"
      [] c = " " -> "+"
      [] c = ":" -> "%3A"
      [] c = "/" -> "%2F"
      [] c = "Format: " -> "Format%3A+"
      [] c = "Instructor(s): " -> "Instructor%28s%29%3A+"
      [] c = "Research Area(s): " -> "Research+Area%28s%29%3A+"
      [] c = "Quarter: " -> "Quarter%3A+"
      [] c = "Register: " -> "Register%3A+"
      [] c = "More info: " -> "More+info%3A+"
      [] c = "/calendar/action/compose" -> "%2Fcalendar%2Faction%2Fcompose"
      [] c = "https://example.edu/reg" -> "https%3A%2F%2Fexample.edu%2Freg"
      [] OTHER -> c

UrlEncode(s) == [i \in 1..Len(s) |-> UrlEncodeToken(s[i])]

\* new URLSearchParams(pairs).toString()
ParamsToString(pairs) ==
    Join([i \in 1..Len(pairs) |->
             <<pairs[i][1], "=">> \o UrlEncode(ToStr(pairs[i][2]))],
         <<"&">>)

\* generateGoogleCalendarUrl(event)
generateGoogleCalendarUrl(event) ==
    LET details ==
            IF ~Falsy(event.url)
              THEN OrElse(event.description, <<>>) \o <<NL, NL, "More info: ">>
                     \o ToStr(event.url)
              ELSE OrElse(event.description, <<>>)
    IN  <<"https://calendar.google.com/calendar/render?">>
          \o ParamsToString(
               << <<"action", <<"TEMPLATE">> >>,
                  <<"text", event.title>>,
                  <<"details", details>>,
                  <<"location", OrElse(event.location, <<>>)>>,
                  <<"dates", formatGoogleDate(event.start) \o <<"/">>
                               \o formatGoogleDate(event.end)>> >>)

\* the parameters of generateOutlookUrl and generateOffice365Url
ComposeParams(event) ==
    ParamsToString(
      << <<"path", <<"/calendar/action/compose">> >>,
         <<"rru", <<"addevent">> >>,
         <<"subject", event.title>>,
         <<"body", OrElse(event.description, <<>>)>>,
         <<"location", OrElse(event.location, <<>>)>>,
         <<"startdt", toISOString(event.start)>>,
         <<"enddt", toISOString(event.end)>> >>)

\* generateOutlookUrl(event)
generateOutlookUrl(event) ==
    <<"https://outlook.live.com/calendar/0/deeplink/compose?">> \o ComposeParams(event)

\* generateOffice365Url(event)
generateOffice365Url(event) ==
    <<"https://outlook.office.com/calendar/0/deeplink/compose?">> \o ComposeParams(event)

\* generateYahooUrl(event)
generateYahooUrl(event) ==
    LET duration == Floor(event.end - event.start, MsPerMinute)
    IN  <<"https://calendar.yahoo.com/?">>
          \o ParamsToString(
               << <<"v", <<"6", "0">> >>,
                  <<"title", event.title>>,
                  <<"desc", OrElse(event.description, <<>>)>>,
                  <<"in_loc", OrElse(event.location, <<>>)>>,
                  <<"st", formatYahooDate(event.start)>>,
                  <<"dur", formatDuration(duration)>> >>)

\* URL.createObjectURL(blob) for the k-th blob registered: a URL that no
\* earlier registration gave
createObjectURL(k) == <<"blob:">> \o NumStr(k)

\* generateLinks(event) called at instant t0 with k - 1 blobs registered
generateLinks(event, t0, k) ==
    [google |-> generateGoogleCalendarUrl(event),
     apple |-> createObjectURL(k),
     outlook |-> generateOutlookUrl(event),
     office365 |-> generateOffice365Url(event),
     yahoo |-> generateYahooUrl(event)]

(***************************************************************************)
(* The batch script (scripts/generate-ics.js).  A filter is an id, or ""   *)
(* for none.  The script has its own class ICalGenerator, the Batch...     *)
(* operators; a file of the calendars directory is its name, its content   *)
(* and the instant it was written at.                                      *)
(***************************************************************************)
\* wrapInCalendar of the script without the three X-WR lines
BatchWrapInCalendarPlain(events) ==
    <<"BEGIN:VCALENDAR", NL, "VERSION:2.0", NL,
      "PRODID:-//UCSB Library//RDS Workshops//EN", NL,
      "CALSCALE:GREGORIAN", NL, "METHOD:PUBLISH", NL>>
      \o events \o <<NL, "END:VCALENDAR">>

\* formatDate(date) of the script
BatchFormatDate(date) ==
    LET year == NumStr(getFullYear(date))
        month == PadStart2(String(getMonth(date) + 1))
        day == PadStart2(String(getDate(date)))
        hours == PadStart2(String(getHours(date)))
        minutes == PadStart2(String(getMinutes(date)))
        seconds == PadStart2(String(getSeconds(date)))
    IN  year \o month \o day \o <<"T">> \o hours \o minutes \o seconds

\* escapeText(text) of the script
BatchEscapeText(t) ==
    IF Falsy(t) THEN <<>>
    ELSE LET backslash == ReplaceAll(t, BS, <<BS, BS>>)
             semicolon == ReplaceAll(backslash, ";", <<BS, ";">>)
             comma == ReplaceAll(semicolon, ",", <<BS, ",">>)
             newline == ReplaceAll(comma, NL, <<BS, "n">>)
         IN  ReplaceAll(newline, CR, <<>>)

\* the names or labels of the ids that the lookup holds, joined
BatchJoined(items, ids, field) ==
    Join(FilterBoolean(
           [k \in 1..Len(ids) |->
               IF Find(items, ids[k]) = <<>> THEN Undefined
               ELSE Find(items, ids[k])[1][field]]),
         <<",", " ">>)

\* buildDescription(workshop, offering) of the script
BatchBuildDescription(workshop, offering) ==
    LET format == Find(data.formats, workshop.format_id)
        instructors == BatchJoined(data.instructors, workshop.instructor_ids, "name")
        areas == BatchJoined(data.areas, workshop.area_ids, "label")
    IN  OrElse(workshop.description, OrElse(workshop.summary, <<>>))
          \o <<NL, NL, "---", NL>>
          \o (IF format = <<>> THEN <<>>
              ELSE <<"Format: ">> \o ToStr(format[1].label) \o <<NL>>)
          \o (IF Falsy(instructors) THEN <<>>
              ELSE <<"Instructor(s): ">> \o instructors \o <<NL>>)
          \o (IF Falsy(areas) THEN <<>>
              ELSE <<"Research Area(s): ">> \o areas \o <<NL>>)
          \o (IF Falsy(offering.quarter) THEN <<>>
              ELSE <<"Quarter: ">> \o ToStr(offering.quarter) \o <<" ">>
                     \o ToStr(offering.year) \o <<NL>>)
          \o (IF Falsy(offering.registration_url) THEN <<>>
              ELSE <<NL, "Register: ">> \o ToStr(offering.registration_url))

\* the template literal of createEvent of the script for one offering
BatchVEvent(workshop, offering, stamp) ==
    LET description == BatchBuildDescription(workshop, offering)
        location == OrElse(offering.location, <<"TBA">>)
        url == OrElse(offering.registration_url, <<>>)
        title == BatchEscapeText(workshop.title)
    IN  <<"BEGIN:VEVENT", NL>>
          \o <<"UID:">> \o ToStr(offering.id) \o <<"@rds-workshops.ucsb.edu", NL>>
          \o <<"DTSTAMP:">> \o BatchFormatDate(stamp) \o <<NL>>
          \o <<"DTSTART:">> \o BatchFormatDate(NewDate(offering.start)) \o <<NL>>
          \o <<"DTEND:">> \o BatchFormatDate(NewDate(offering.end)) \o <<NL>>
          \o <<"SUMMARY:">> \o title \o <<NL>>
          \o <<"DESCRIPTION:">> \o BatchEscapeText(description) \o <<NL>>
          \o <<"LOCATION:">> \o BatchEscapeText(location)
          \o (IF Falsy(url) THEN <<>> ELSE <<NL, "URL:">> \o url) \o <<NL>>
          \o <<"STATUS:CONFIRMED", NL, "SEQUENCE:0", NL>>
          \o <<"BEGIN:VALARM", NL, "TRIGGER:-PT24H", NL, "ACTION:DISPLAY", NL>>
          \o <<"DESCRIPTION:", "Reminder: ">> \o title \o <<" tomorrow", NL>>
          \o <<"END:VALARM", NL>>
          \o <<"BEGIN:VALARM", NL, "TRIGGER:-PT1H", NL, "ACTION:DISPLAY", NL>>
          \o <<"DESCRIPTION:", "Reminder: ">> \o title \o <<" in 1 hour", NL>>
          \o <<"END:VALARM", NL>>
          \o <<"END:VEVENT">>

\* createEvent(workshop) of the script; `reads` readings of the clock came
\* before it
BatchCreateEvent(workshop, reads, t0, same) ==
    LET offerings == SelectSeq(data.offerings, LAMBDA o : o.workshop_id = workshop.id)
    IN  IF offerings = <<>> THEN Null
        ELSE Join([k \in 1..Len(offerings) |->
                      BatchVEvent(workshop, offerings[k], ClockRead(reads + k, t0, same))],
                  <<NL>>)

\* wrapInCalendar(events) of the script
BatchWrapInCalendar(events) ==
    <<"BEGIN:VCALENDAR", NL,
      "VERSION:2.0", NL,
      "PRODID:-//UCSB Library//RDS Workshops//EN", NL,
      "CALSCALE:GREGORIAN", NL,
      "METHOD:PUBLISH", NL,
      "X-WR-CALNAME:RDS Workshops", NL,
      "X-WR-TIMEZONE:America/Los_Angeles", NL,
      "X-WR-CALDESC:Research Data Services Workshop Catalogue", NL>>
      \o events \o <<NL, "END:VCALENDAR">>

\* generate(workshops) of the script, called at instant t0
BatchGenerate(workshops, t0, same) ==
    LET events == FilterBoolean(
                    [i \in 1..Len(workshops) |->
                        BatchCreateEvent(workshops[i], ReadsBefore(workshops, i - 1),
                                         t0, same)])
    IN  BatchWrapInCalendar(Join(events, <<NL>>))

NoFilters ==
    [area |-> "", audience |-> "", format |-> "", department |-> "", instructor |-> ""]

\* ids.includes(id)
Includes(ids, id) == \E i \in 1..Len(ids) : ids[i] = id

\* filterWorkshops keeping the workshops that are not active too
filterWorkshopsAll(filters) ==
    SelectSeq(data.workshops, LAMBDA workshop :
        /\ (filters.area # "" => Includes(workshop.area_ids, filters.area))
        /\ (filters.audience # "" => Includes(workshop.audience_ids, filters.audience))
        /\ (filters.format # "" => workshop.format_id = filters.format)
        /\ (filters.department # ""
              => Includes(workshop.department_ids, filters.department))
        /\ (filters.instructor # ""
              => Includes(workshop.instructor_ids, filters.instructor)))

\* filterWorkshops(filters)
filterWorkshops(filters) ==
    SelectSeq(data.workshops, LAMBDA workshop :
        /\ workshop.is_active
        /\ (filters.area # "" => Includes(workshop.area_ids, filters.area))
        /\ (filters.audience # "" => Includes(workshop.audience_ids, filters.audience))
        /\ (filters.format # "" => workshop.format_id = filters.format)
        /\ (filters.department # ""
              => Includes(workshop.department_ids, filters.department))
        /\ (filters.instructor # ""
              => Includes(workshop.instructor_ids, filters.instructor)))

\* the file the script writes for a list of workshops at instant t0
CalendarFile(name, workshops, t0) ==
    [name |-> name,
     content |-> BatchGenerate(workshops, t0, ReadsBefore(workshops, Len(workshops))),
     mtime |-> t0]

\* the files of one of the loops over a lookup: one for each item with a
\* workshop
FilesBy(prefix, items, key, t0) ==
    { CalendarFile(<<prefix, item.id, ".ics">>,
                   filterWorkshops([NoFilters EXCEPT ![key] = item.id]), t0) :
        item \in { x \in Range(items) :
                     filterWorkshops([NoFilters EXCEPT ![key] = x.id]) # <<>> } }

\* const combinations
combinations ==
    << [filters |-> [NoFilters EXCEPT !.format = "fmt-online", !.audience = "aud-grad"],
        name |-> "online-grad"],
       [filters |-> [NoFilters EXCEPT !.format = "fmt-in-person", !.audience = "aud-grad"],
        name |-> "in-person-grad"] >>

\* the files one run of the script writes at instant t0
BatchFiles(t0) ==
    { CalendarFile(<<"all.ics">>, filterWorkshops(NoFilters), t0) }
      \cup FilesBy("area-", data.areas, "area", t0)
      \cup FilesBy("audience-", data.audiences, "audience", t0)
      \cup FilesBy("format-", data.formats, "format", t0)
      \cup FilesBy("department-", data.departments, "department", t0)
      \cup { CalendarFile(<<c.name, ".ics">>, filterWorkshops(c.filters), t0) :
               c \in { x \in Range(combinations) : filterWorkshops(x.filters) # <<>> } }

\* fs.writeFileSync of each of `written` into a directory holding `dir`
WriteFiles(dir, written) ==
    { f \in dir : \A g \in written : g.name # f.name } \cup written

(***************************************************************************)
(* class WorkshopCatalogue (assets/js/app.js).  The state of the page is   *)
(* the record app: phase "none" before the object is made, "loading"       *)
(* while init waits for the dataset, "ready" or "error" after; with it     *)
(* the fields of the object (data, filters, sortBy, filteredWorkshops,     *)
(* icalGenerator) and of the document (the elements with a listener, the   *)
(* values of the controls, what the list shows, the query of the URL, the  *)
(* modal).                                                                 *)
(***************************************************************************)
\* what URLSearchParams reads for one written token
UrlDecodeToken(c) ==
    CASE c = "%3B" -> ";"
      [] c = "%2C" -> ","
      [] c = "%0A" -> NL
      [] c = "%0D" -> CR
      [] c = "%5C" -> BS
      [] c = "+" -> " "
      [] c = "%3A" -> ":"
      [] c = "%2F" -> "/"
      [] OTHER -> c

\* params.get(name) of a query written as its pairs <<name, value>>: the
\* value of the first pair of that name, read; null when there is none
SearchParamsGet(query, name) ==
    LET hits == SelectSeq(query, LAMBDA pair : pair[1] = name)
    IN  IF hits = <<>> THEN Null
        ELSE [i \in 1..Len(hits[1][2]) |-> UrlDecodeToken(hits[1][2][i])]

\* a text that is an id, as the id; the empty text and null as ""
IdOf(v) == IF Falsy(v) THEN "" ELSE v[1]

\* getFiltersFromURL()
getFiltersFromURL(query) ==
    [search |-> OrElse(SearchParamsGet(query, "search"), <<>>),
     area |-> IdOf(SearchParamsGet(query, "area")),
     audience |-> IdOf(SearchParamsGet(query, "audience")),
     format |-> IdOf(SearchParamsGet(query, "format")),
     department |-> IdOf(SearchParamsGet(query, "department")),
     instructor |-> IdOf(SearchParamsGet(query, "instructor"))]

FilterKeys == <<"search", "area", "audience", "format", "department", "instructor">>

\* QueryOf writing a parameter for every key, set or not
QueryOfEveryKey(filters) ==
    [i \in 1..Len(FilterKeys) |->
        <<FilterKeys[i], UrlEncode(IF FilterKeys[i] = "search" THEN filters[FilterKeys[i]]
                                   ELSE <<filters[FilterKeys[i]]>>)>>]

\* the query updateURL() writes: the filters that are set, in the order of
\* the keys
QueryOf(filters) ==
    LET set == SelectSeq(FilterKeys,
                         LAMBDA key : IF key = "search" THEN filters[key] # <<>>
                                      ELSE filters[key] # "")
    IN  [i \in 1..Len(set) |->
            <<set[i], UrlEncode(IF set[i] = "search" THEN filters[set[i]]
                                ELSE <<filters[set[i]]>>)>>]

\* c.toLowerCase() for one token
ToLowerToken(c) ==
    CASE c = "P" -> "p"
      [] c = "R" -> "r"
      [] c = "A" -> "a"
      [] c = "B" -> "b"
      [] OTHER -> c

\* s.toLowerCase()
toLowerCase(s) == [i \in 1..Len(s) |-> ToLowerToken(s[i])]

\* s.includes(part)
IncludesText(s, part) ==
    \E i \in 0..(Len(s) - Len(part)) : SubSeq(s, i + 1, i + Len(part)) = part

\* `${workshop.title} ${workshop.summary} ${workshop.description}
\* ${workshop.tags}`.toLowerCase(); an array is written as its items joined
\* by commas
searchText(workshop) ==
    toLowerCase(ToStr(workshop.title) \o <<" ">> \o ToStr(workshop.summary) \o <<" ">>
                  \o ToStr(workshop.description) \o <<" ">>
                  \o Join(workshop.tags, <<",">>))

\* the test of the filter callback of filterAndDisplayWorkshops
Matches(workshop, filters) ==
    /\ workshop.is_active
    /\ (filters.search # <<>> => IncludesText(searchText(workshop), filters.search))
    /\ (filters.area # "" => Includes(workshop.area_ids, filters.area))
    /\ (filters.audience # "" => Includes(workshop.audience_ids, filters.audience))
    /\ (filters.format # "" => workshop.format_id = filters.format)
    /\ (filters.department # ""
          => Includes(workshop.department_ids, filters.department))
    /\ (filters.instructor # ""
          => Includes(workshop.instructor_ids, filters.instructor))

\* the place of a letter in the order of localeCompare
LetterRank(c) ==
    CASE c = "," -> 1 [] c = ";" -> 2 [] c = "a" -> 3 [] c = "n" -> 4
      [] c = "P" -> 5 [] c = "R" -> 6 [] c = "y" -> 7 [] OTHER -> 8

\* a.localeCompare(b)
RECURSIVE localeCompare(_, _)
localeCompare(a, b) ==
    IF a = <<>> /\ b = <<>> THEN 0
    ELSE IF a = <<>> THEN 0 - 1
    ELSE IF b = <<>> THEN 1
    ELSE IF LetterRank(a[1]) # LetterRank(b[1])
      THEN LetterRank(a[1]) - LetterRank(b[1])
    ELSE localeCompare(Tail(a), Tail(b))

\* getFirstOffering(workshop): <<offering>>, or <<>> for undefined
getFirstOffering(d, workshop) ==
    LET hits == SelectSeq(d.offerings, LAMBDA o : o.workshop_id = workshop.id)
    IN  IF hits = <<>> THEN <<>> ELSE <<hits[1]>>

\* the comparator of sortWorkshops; 0 where it returns undefined
Compare(d, a, b, sortBy) ==
    IF sortBy = "date"
      THEN LET offeringA == getFirstOffering(d, a)
               offeringB == getFirstOffering(d, b)
           IN  IF offeringA = <<>> THEN 1
               ELSE IF offeringB = <<>> THEN 0 - 1
               ELSE NewDate(offeringA[1].start) - NewDate(offeringB[1].start)
    ELSE IF sortBy = "title" THEN localeCompare(a.title, b.title)
    ELSE 0

\* Array.prototype.sort with the comparator, the sort being stable
RECURSIVE sortWorkshops(_, _, _)
sortWorkshops(d, ws, sortBy) ==
    IF ws = <<>> THEN <<>>
    ELSE LET x == ws[Len(ws)]
             sorted == sortWorkshops(d, SubSeq(ws, 1, Len(ws) - 1), sortBy)
         IN  SelectSeq(sorted, LAMBDA e : Compare(d, e, x, sortBy) <= 0)
               \o <<x>>
               \o SelectSeq(sorted, LAMBDA e : Compare(d, e, x, sortBy) > 0)

\* the values of a select: "" and the ids of the lookup
Options(items) == {""} \cup { x.id : x \in Range(items) }

\* select.value after `select.value = v`
SelectValue(items, v) == IF v \in Options(items) THEN v ELSE ""

\* the values of the controls after populateFilters() or clearFilters()
ControlsOf(d, filters) ==
    [search |-> filters.search,
     area |-> SelectValue(d.areas, filters.area),
     audience |-> SelectValue(d.audiences, filters.audience),
     format |-> SelectValue(d.formats, filters.format),
     department |-> SelectValue(d.departments, filters.department),
     instructor |-> SelectValue(d.instructors, filters.instructor)]

\* the elements setupEventListeners() puts a listener on
Listeners ==
    {"searchInput", "areaFilter", "audienceFilter", "formatFilter", "departmentFilter",
     "instructorFilter", "clearFilters", "sortBy", "subscribeCalendar", "workshopList"}

\* Constructed where the constructor sets up the listeners itself, before
\* init() has the dataset
ConstructedListening(query) ==
    [phase |-> "loading", data |-> Null, filteredWorkshops |-> <<>>,
     filters |-> getFiltersFromURL(query), sortBy |-> "date", icalGenerator |-> FALSE,
     listeners |-> Listeners, controls |-> ControlsOf(NoLookups, getFiltersFromURL(<<>>)),
     shown |-> "nothing", resultsCount |-> <<>>, query |-> query, modal |-> FALSE,
     error |-> "none"]

\* the object after the constructor, init() waiting for the dataset
Constructed(query) ==
    [phase |-> "loading", data |-> Null, filteredWorkshops |-> <<>>,
     filters |-> getFiltersFromURL(query), sortBy |-> "date", icalGenerator |-> FALSE,
     listeners |-> {}, controls |-> ControlsOf(NoLookups, getFiltersFromURL(<<>>)),
     shown |-> "nothing", resultsCount |-> <<>>, query |-> query, modal |-> FALSE,
     error |-> "none"]

\* filterAndDisplayWorkshops() of the object a
filterAndDisplayWorkshops(a) ==
    LET filtered == sortWorkshops(a.data,
                                  SelectSeq(a.data.workshops,
                                            LAMBDA w : Matches(w, a.filters)),
                                  a.sortBy)
    IN  [a EXCEPT !.query = QueryOf(a.filters),
                  !.filteredWorkshops = filtered,
                  !.shown = IF filtered = <<>> THEN "no workshops found" ELSE "cards",
                  !.resultsCount =
                      <<Len(filtered),
                        Len(SelectSeq(a.data.workshops, LAMBDA w : w.is_active))>>]

(***************************************************************************)
(* Datasets (assets/data/workshops.json as the code reads it).             *)
(***************************************************************************)
Formats ==
    << [id |-> "fmt-online", label |-> <<"O", "n">>],
       [id |-> "fmt-blank", label |-> <<>>],
       [id |-> "fmt-nolabel", label |-> Undefined] >>

Instructors ==
    << [id |-> "ins-1", name |-> <<"A", "n">>],
       [id |-> "ins-2", name |-> <<"B", ",", "c">>],
       [id |-> "ins-3", name |-> <<>>] >>

Areas ==
    << [id |-> "area-1", label |-> <<"D">>],
       [id |-> "area-2", label |-> <<"G", ";", "S">>] >>

Titles == { <<"P", "y">>, <<"a", ";", NL, BS, ",", CR, "n">>, Undefined }

DescriptionSummary ==
    { [description |-> <<"d", ",", NL, "e">>, summary |-> <<"s">>],
      [description |-> <<>>, summary |-> <<"s", ";">>],
      [description |-> Undefined, summary |-> <<>>] }

FormatIds == {"fmt-online", "fmt-blank", "fmt-nolabel", "fmt-gone"}

InstructorIds == { <<>>, <<"ins-3">>, <<"ins-2", "ins-9", "ins-1">> }

AreaIds == { <<>>, <<"area-2", "area-1">> }

Locations == { <<>>, Undefined, <<"R", ";", "1">> }

Urls == { <<>>, Undefined, <<"https://example.edu/reg">> }

QuarterYear ==
    { [quarter |-> Undefined, year |-> Undefined],
      [quarter |-> <<"Fall">>, year |-> <<"2025">>],
      [quarter |-> <<"Fall">>, year |-> Undefined] }

StartEnd ==
    { [start |-> [mo |-> 3, d |-> 10, h |-> 10, mi |-> 0, s |-> 0, z |-> ""],
       end |-> [mo |-> 3, d |-> 10, h |-> 11, mi |-> 0, s |-> 0, z |-> ""]],
      [start |-> [mo |-> 3, d |-> 1, h |-> 1, mi |-> 30, s |-> 5, z |-> "Z"],
       end |-> [mo |-> 3, d |-> 1, h |-> 9, mi |-> 7, s |-> 45, z |-> "Z"]] }

Workshop(id, title, ds, format_id, instructor_ids, area_ids) ==
    [id |-> id, title |-> title,
     description |-> ds.description, summary |-> ds.summary,
     format_id |-> format_id, instructor_ids |-> instructor_ids,
     area_ids |-> area_ids]

Offering(id, workshop_id, se, location, url, qy) ==
    [id |-> id, workshop_id |-> workshop_id,
     start |-> se.start, end |-> se.end,
     location |-> location, registration_url |-> url,
     quarter |-> qy.quarter, year |-> qy.year]

\* a workshop and an offering with every optional field present
FullWorkshop(id) ==
    Workshop(id, <<"a", ";", NL, BS, ",", CR, "n">>,
             [description |-> <<"d", ",", NL, "e">>, summary |-> <<"s">>],
             "fmt-online", <<"ins-2", "ins-9", "ins-1">>, <<"area-2", "area-1">>)

FullOffering(id, workshop_id) ==
    Offering(id, workshop_id,
             [start |-> [mo |-> 3, d |-> 10, h |-> 10, mi |-> 0, s |-> 0, z |-> ""],
              end |-> [mo |-> 3, d |-> 10, h |-> 11, mi |-> 0, s |-> 0, z |-> ""]],
             <<"R", ";", "1">>, <<"https://example.edu/reg">>,
             [quarter |-> <<"Fall">>, year |-> <<"2025">>])

DataSet(workshops, offerings) ==
    [workshops |-> workshops, offerings |-> offerings,
     formats |-> Formats, instructors |-> Instructors, areas |-> Areas]

\* one workshop with one offering, for the documents: every title and
\* description with the full offering, and the full workshop with every
\* time, location and URL
ContentDataSets ==
    { DataSet(<<Workshop("ws-1", t, ds, "fmt-online",
                         <<"ins-2", "ins-9", "ins-1">>, <<"area-2", "area-1">>)>>,
              <<FullOffering(<<"off-1">>, "ws-1")>>) :
        t \in Titles, ds \in DescriptionSummary }
      \cup
    { DataSet(<<FullWorkshop("ws-1")>>,
              <<Offering(<<"off-1">>, "ws-1", se, l, u,
                         [quarter |-> <<"Fall">>, year |-> <<"2025">>])>>) :
        se \in StartEnd, l \in Locations, u \in Urls }

\* one workshop with one offering, for the descriptions: every description,
\* format, instructor list and area list with every quarter, year and URL
DescriptionDataSets ==
    { DataSet(<<Workshop("ws-1", <<"P", "y">>, ds, f, i, a)>>,
              <<Offering(<<"off-1">>, "ws-1",
                         [start |-> [mo |-> 3, d |-> 10, h |-> 10, mi |-> 0,
                                     s |-> 0, z |-> ""],
                          end |-> [mo |-> 3, d |-> 10, h |-> 11, mi |-> 0,
                                   s |-> 0, z |-> ""]],
                         <<>>, u, qy)>>) :
        ds \in DescriptionSummary, f \in FormatIds, i \in InstructorIds,
        a \in AreaIds, qy \in QuarterYear, u \in Urls }

OfferingIds == << <<"off-1">>, <<"off-2">>, <<"off-3">>, <<"off-4">>, <<"off-5">> >>

\* two workshops and up to MaxOfferings offerings, each of either workshop
\* the k-th offering of a dataset of the structural family
StructureOffering(k, workshop_id) ==
    Offering(OfferingIds[k], workshop_id,
             [start |-> [mo |-> 3, d |-> 10 + k, h |-> 10, mi |-> 0, s |-> 0, z |-> ""],
              end |-> [mo |-> 3, d |-> 10 + k, h |-> 11, mi |-> 30, s |-> 0, z |-> ""]],
             <<>>,
             IF k % 2 = 1 THEN <<"https://example.edu/reg">> ELSE <<>>,
             [quarter |-> Undefined, year |-> Undefined])

\* two workshops and up to MaxOfferings offerings, each of either workshop
StructureDataSets ==
    { DataSet(<<Workshop("ws-1", <<"P", "y">>,
                         [description |-> <<"d">>, summary |-> <<>>],
                         "fmt-gone", <<>>, <<>>),
                Workshop("ws-2", <<"R", ",">>,
                         [description |-> Undefined, summary |-> <<"s", NL>>],
                         "fmt-online", <<>>, <<>>)>>,
              [k \in DOMAIN owner |-> StructureOffering(k, owner[k])]) :
        owner \in SeqsUpTo({"ws-1", "ws-2"}, MaxOfferings) }

\* texts with line breaks in them, for every field of a workshop and of an
\* offering that reaches a document
BrokenTitles == { <<"P", "y">>, <<"a", NL, "b">>, <<"a", CR, NL>> }

BrokenLocations == { <<>>, <<"R", NL, NL, "1">> }

BrokenUrls ==
    { <<>>, <<"https://example.edu/reg">>, <<"u", NL, "BEGIN:VEVENT">>,
      <<"u", CR, NL, NL>> }

BrokenIds == { <<"off-1">>, <<"o", NL, "END:VEVENT">>, <<"o", CR>> }

\* one workshop with one offering, each text with and without line breaks,
\* and the workshop without an offering
BrokenDataSets ==
    { DataSet(<<Workshop("ws-1", t, ds, "fmt-online", <<"ins-1">>, <<>>)>>,
              <<Offering(id, "ws-1",
                         [start |-> [mo |-> 3, d |-> 10, h |-> 10, mi |-> 0,
                                     s |-> 0, z |-> ""],
                          end |-> [mo |-> 3, d |-> 10, h |-> 11, mi |-> 0,
                                   s |-> 0, z |-> ""]],
                         l, u, [quarter |-> Undefined, year |-> Undefined])>>) :
        t \in BrokenTitles,
        ds \in { [description |-> <<"d", NL, NL, "e">>, summary |-> <<>>],
                 [description |-> Undefined, summary |-> <<NL>>] },
        id \in BrokenIds, l \in BrokenLocations, u \in BrokenUrls }
      \cup
    { DataSet(<<FullWorkshop("ws-1")>>, <<>>) }

\* start and end of the offerings of the links: 0, 45 and 90 minutes, 90
\* minutes and 59 seconds, 25 hours, an end before the start, and UTC times
LinkTimes ==
    { [start |-> [mo |-> 3, d |-> 10, h |-> 10, mi |-> 0, s |-> 0, z |-> ""],
       end |-> [mo |-> 3, d |-> e.d, h |-> e.h, mi |-> e.mi, s |-> e.s, z |-> ""]] :
        e \in { [d |-> 10, h |-> 10, mi |-> 0, s |-> 0],
                [d |-> 10, h |-> 10, mi |-> 45, s |-> 0],
                [d |-> 10, h |-> 11, mi |-> 30, s |-> 0],
                [d |-> 10, h |-> 11, mi |-> 30, s |-> 59],
                [d |-> 11, h |-> 11, mi |-> 0, s |-> 0],
                [d |-> 10, h |-> 9, mi |-> 30, s |-> 0] } }
      \cup
    { [start |-> [mo |-> 3, d |-> 1, h |-> 1, mi |-> 30, s |-> 5, z |-> "Z"],
       end |-> [mo |-> 3, d |-> 1, h |-> 9, mi |-> 7, s |-> 45, z |-> "Z"]] }

\* one workshop with one offering, for the links of its button
LinkDataSets ==
    { DataSet(<<Workshop("ws-1", t, ds, "fmt-online",
                         <<"ins-2", "ins-9", "ins-1">>, <<"area-2", "area-1">>)>>,
              <<Offering(<<"off-1">>, "ws-1", se, l, u,
                         [quarter |-> <<"Fall">>, year |-> <<"2025">>])>>) :
        t \in Titles \ {Undefined}, ds \in DescriptionSummary,
        se \in LinkTimes, l \in Locations, u \in Urls }

Audiences ==
    << [id |-> "aud-grad", label |-> <<"G", "r">>],
       [id |-> "aud-ugrad", label |-> <<"U">>] >>

Departments == << [id |-> "dept-1", label |-> <<"L">>] >>

CatalogueFormats ==
    << [id |-> "fmt-online", label |-> <<"O", "n">>],
       [id |-> "fmt-in-person", label |-> <<"I", "n">>] >>

\* a workshop with the fields the catalogue filters on
CatalogueWorkshop(id, title, tags, is_active, format_id, area_ids, audience_ids, department_ids, instructor_ids) ==
    [id |-> id, title |-> title,
     description |-> Undefined, summary |-> <<"s">>, tags |-> tags,
     is_active |-> is_active, format_id |-> format_id, area_ids |-> area_ids,
     audience_ids |-> audience_ids, department_ids |-> department_ids,
     instructor_ids |-> instructor_ids]

\* the second workshop of a catalogue: in every lookup, active or not
SecondWorkshops ==
    { CatalogueWorkshop("ws-2", <<"R", ",">>, << <<"r">> >>, active, "fmt-in-person",
                        <<"area-2">>, <<"aud-grad", "aud-ugrad">>, <<"dept-1">>,
                        <<"ins-1">>) :
        active \in BOOLEAN }

\* two workshops with one offering each; the first has every combination
\* of the fields the filters read
CatalogueDataSets ==
    { [workshops |-> <<CatalogueWorkshop("ws-1", <<"P", "y">>, << <<"n">>, <<"y">> >>,
                                         active, f, a, au, d, <<"ins-2">>),
                       w2>>,
       offerings |-> <<StructureOffering(1, "ws-1"), StructureOffering(2, "ws-2")>>,
       formats |-> CatalogueFormats, instructors |-> Instructors, areas |-> Areas,
       audiences |-> Audiences, departments |-> Departments] :
        active \in BOOLEAN, f \in {"fmt-online", "fmt-in-person"},
        a \in {<<>>, <<"area-1">>, <<"area-2", "area-1">>},
        au \in {<<>>, <<"aud-grad">>}, d \in {<<>>, <<"dept-1">>},
        w2 \in SecondWorkshops }

\* the datasets of the page: a first workshop that is active or not, with
\* an instructor that the lookup does not hold, a second one that is
\* active and a third one that is not; the first offering of the second
\* workshop is before that of the first
AppDataSets ==
    { [workshops |->
         <<CatalogueWorkshop("ws-1", <<"P", "y">>, << <<"n">>, <<"P">> >>, active,
                             "fmt-online", <<"area-1">>, <<"aud-grad">>, <<>>,
                             <<"ins-2", "ins-9">>),
           CatalogueWorkshop("ws-2", <<"R", ",">>, << <<"y">> >>, TRUE,
                             "fmt-in-person", <<"area-2", "area-1">>, <<>>,
                             <<"dept-1">>, <<"ins-1">>),
           CatalogueWorkshop("ws-3", <<"P", "y">>, << <<"y">> >>, FALSE,
                             "fmt-online", <<"area-1", "area-2">>, <<"aud-grad">>,
                             <<"dept-1">>, <<"ins-1", "ins-2">>)>>,
       offerings |-> <<StructureOffering(1, "ws-2"), StructureOffering(2, "ws-1"),
                       StructureOffering(3, "ws-3")>>,
       formats |-> CatalogueFormats,
       instructors |-> SubSeq(Instructors, 1, 2),
       areas |-> Areas,
       audiences |-> SubSeq(Audiences, 1, 1),
       departments |-> Departments] :
        active \in BOOLEAN }

\* the queries of the URL the page is opened with, as their pairs
InitialQueries ==
    { <<>>,
      << <<"search", <<"P", "y">>>> >>,
      << <<"search", <<"r", "%2C">>>>, <<"area", <<"area-1">>>> >>,
      << <<"instructor", <<"ins-9">>>>, <<"format", <<>>>> >> }

\* the texts typed into the search input
SearchTexts == { <<>>, <<"P", "y">>, <<"y">>, <<"z">> }

\* the dataset of a run that reads none
NoData == DataSet(<<>>, <<>>)

\* offsets of the local zone: UTC, and UTC-7 (America/Los_Angeles in March)
TZOffsets == {0, 0 - 7 * MsPerHour}

Instants == { s * MsPerSecond : s \in 0..MaxSec }

(***************************************************************************)
(* State.  data, tz: the dataset and the zone of the run.  now: the clock. *)
(* out: the last call of generate, buildDescription or generateICS, with   *)
(* its argument and its result, and the result of the call before it when  *)
(* that was the same call on the same argument.  text, escaped: the        *)
(* argument and result of escapeText called on its own.  store: the texts  *)
(* registered in the browser's object-URL store, in the order of their     *)
(* registration.  files: the files of the calendars directory.  app: the   *)
(* WorkshopCatalogue object and the page around it.                        *)
(***************************************************************************)
NoDoc == <<"#none">>

NoCall == [op |-> "none", arg |-> <<>>, doc |-> NoDoc, prevDoc |-> NoDoc]

NotYet == <<"#none">>

\* the calendars directory before any run: no file
NoFiles == {}

\* the page before the object is made: nothing loaded, shown or listened to
NoApp == [Constructed(<<>>) EXCEPT !.phase = "none"]

Call(op, arg, doc) ==
    LET again == IF out.op = op THEN out.arg = arg ELSE FALSE
    IN  [op |-> op, arg |-> arg, doc |-> doc,
         prevDoc |-> IF again THEN out.doc ELSE NoDoc]

InitOf(datasets, zones) ==
    /\ data \in datasets
    /\ tz \in zones
    /\ now = 0
    /\ out = NoCall
    /\ text = <<>>
    /\ escaped = NotYet
    /\ store = <<>>
    /\ files = NoFiles
    /\ app = NoApp

Init ==
    \/ InitOf(ContentDataSets, TZOffsets)
    \/ InitOf(StructureDataSets, {0 - 7 * MsPerHour})

\* A run makes one call, of one operation on one argument, and may repeat
\* it at later instants: no call reads anything an earlier call wrote, so
\* the calls of a longer run are the calls of these runs.
InRun(op, arg) == out.op = "none" \/ (out.op = op /\ out.arg = arg)

\* time passes
Tick ==
    /\ \E t \in Instants : t > now /\ now' = t
    /\ UNCHANGED <<data, tz, out, text, escaped, store, files, app>>

\* icalGenerator.generate(workshops); the clock stays within one second
Generate ==
    /\ \E workshops \in SeqsUpTo(Range(data.workshops), MaxList) :
          /\ InRun("generate", workshops)
          /\ out' = Call("generate", workshops,
                         generate(workshops, now, ReadsBefore(workshops, Len(workshops))))
    /\ UNCHANGED <<data, tz, now, text, escaped, store, files, app>>

\* icalGenerator.generate(workshops); the second changes after the first event
GenerateSlow ==
    /\ now + MsPerSecond \in Instants
    /\ \E workshops \in SeqsUpTo(Range(data.workshops), MaxList) :
          /\ InRun("generate", workshops)
          /\ ReadsBefore(workshops, Len(workshops)) >= 2
          /\ out' = Call("generate", workshops, generate(workshops, now, 1))
    /\ now' = now + MsPerSecond
    /\ UNCHANGED <<data, tz, text, escaped, store, files, app>>

\* buildDescription(workshop, offering) as createEvent calls it
Describe ==
    /\ \E w \in Range(data.workshops) :
         \E o \in Range(OfferingsOf(w)) :
            /\ InRun("buildDescription", <<w, o>>)
            /\ out' = Call("buildDescription", <<w, o>>, buildDescription(w, o))
    /\ UNCHANGED <<data, tz, now, text, escaped, store, files, app>>

\* AddToCalendar.generateICS(event) for the event of an offering's button
GenerateICS ==
    /\ \E o \in Range(data.offerings) :
          /\ EventOf(o) # <<>>
          /\ InRun("generateICS", EventOf(o)[1])
          /\ out' = Call("generateICS", EventOf(o)[1], generateICS(EventOf(o)[1], now))
    /\ UNCHANGED <<data, tz, now, text, escaped, store, files, app>>

Next == Tick \/ Generate \/ GenerateSlow \/ GenerateICS

Spec == Init /\ [][Next]_vars

(***************************************************************************)
(* The documents of datasets whose texts hold line breaks.                 *)
(***************************************************************************)
InitBroken == InitOf(BrokenDataSets, {0 - 7 * MsPerHour})

NextBroken == Tick \/ Generate

SpecBroken == InitBroken /\ [][NextBroken]_vars

(***************************************************************************)
(* The links of the button of an offering.                                 *)
(***************************************************************************)
InitLinks == InitOf(LinkDataSets, TZOffsets)

\* AddToCalendar.generateLinks(event) for the event of an offering's
\* button, as createDropdownButton calls it
GenerateLinks ==
    /\ Len(store) < MaxStore
    /\ \E o \in Range(data.offerings) :
          /\ EventOf(o) # <<>>
          /\ out' = Call("generateLinks", EventOf(o)[1],
                         generateLinks(EventOf(o)[1], now, Len(store) + 1))
          /\ store' = Append(store, generateICS(EventOf(o)[1], now))
    /\ UNCHANGED <<data, tz, now, text, escaped, files, app>>

NextLinks == Tick \/ GenerateLinks

SpecLinks == InitLinks /\ [][NextLinks]_vars

(***************************************************************************)
(* The batch script run on a dataset.                                      *)
(***************************************************************************)
InitBatch == InitOf(CatalogueDataSets, {0 - 7 * MsPerHour})

\* node scripts/generate-ics.js
RunBatch ==
    /\ files' = WriteFiles(files, BatchFiles(now))
    /\ files' # files
    /\ UNCHANGED <<data, tz, now, out, text, escaped, store, app>>

NextBatch == Tick \/ RunBatch

SpecBatch == InitBatch /\ [][NextBatch]_vars

(***************************************************************************)
(* The page of the catalogue.                                              *)
(***************************************************************************)
InitCatalogue == InitOf(AppDataSets, {0 - 7 * MsPerHour})

\* DOMContentLoaded: new WorkshopCatalogue(); init() runs up to the await
\* of loadData()
Construct ==
    /\ app.phase = "none"
    /\ \E query \in InitialQueries : app' = Constructed(query)
    /\ UNCHANGED <<data, tz, now, out, text, escaped, store, files>>

\* the dataset arrives: the rest of loadData() and of init()
LoadSucceeds ==
    /\ app.phase = "loading"
    /\ app' = filterAndDisplayWorkshops(
                 [app EXCEPT !.phase = "ready",
                             !.data = data,
                             !.icalGenerator = TRUE,
                             !.listeners = Listeners,
                             !.controls = ControlsOf(data, app.filters)])
    /\ UNCHANGED <<data, tz, now, out, text, escaped, store, files>>

\* LoadFails where the listeners were set up before the dataset was
\* awaited
LoadFailsAfterListeners ==
    /\ app.phase = "loading"
    /\ \E error \in {"fetch rejected", "response not ok", "json rejected"} :
          app' = [app EXCEPT !.phase = "error", !.shown = "error", !.error = error,
                             !.listeners = Listeners]
    /\ UNCHANGED <<data, tz, now, out, text, escaped, store, files>>

\* fetch rejects, the response is not ok, or its text is not JSON:
\* loadData() throws and init() catches
LoadFails ==
    /\ app.phase = "loading"
    /\ \E error \in {"fetch rejected", "response not ok", "json rejected"} :
          app' = [app EXCEPT !.phase = "error", !.shown = "error", !.error = error]
    /\ UNCHANGED <<data, tz, now, out, text, escaped, store, files>>

\* the listener of the input event of searchInput, for the value typed
OnSearchInput(a, value) ==
    filterAndDisplayWorkshops(
      [a EXCEPT !.controls.search = value, !.filters.search = toLowerCase(value)])

\* the listener of the change event of the select <key>Filter, for the
\* value the select has
OnFilterChange(a, key, value) ==
    filterAndDisplayWorkshops(
      [a EXCEPT !.controls[key] = value, !.filters[key] = value])

\* the user types into the search input
SearchInput ==
    /\ "searchInput" \in app.listeners
    /\ \E value \in SearchTexts : app' = OnSearchInput(app, value)
    /\ UNCHANGED <<data, tz, now, out, text, escaped, store, files>>

\* the user picks an option of one of the five selects
FilterChange ==
    /\ \E key \in {"area", "audience", "format", "department", "instructor"} :
          /\ (key \o "Filter") \in app.listeners
          /\ \E value \in Options(app.data[key \o "s"]) :
                app' = OnFilterChange(app, key, value)
    /\ UNCHANGED <<data, tz, now, out, text, escaped, store, files>>

\* the user clicks the clear-filters button: clearFilters()
ClearFiltersClick ==
    /\ "clearFilters" \in app.listeners
    /\ app' = filterAndDisplayWorkshops(
                 [app EXCEPT !.filters = getFiltersFromURL(<<>>),
                             !.controls = ControlsOf(app.data, getFiltersFromURL(<<>>))])
    /\ UNCHANGED <<data, tz, now, out, text, escaped, store, files>>

\* the user picks an option of the sort select
SortChange ==
    /\ "sortBy" \in app.listeners
    /\ \E value \in {"date", "title"} :
          app' = filterAndDisplayWorkshops([app EXCEPT !.sortBy = value])
    /\ UNCHANGED <<data, tz, now, out, text, escaped, store, files>>

\* the user clicks an instructor, the format or a tag of a card of the
\* list: the listener of workshopList sets the control and dispatches its
\* event
CardClick ==
    /\ "workshopList" \in app.listeners
    /\ app.shown = "cards"
    /\ \E w \in Range(app.filteredWorkshops) :
          \/ \E id \in Range(w.instructor_ids) :
                app' = OnFilterChange(app, "instructor",
                                      SelectValue(app.data.instructors, id))
          \/ app' = OnFilterChange(
                       app, "format",
                       SelectValue(app.data.formats,
                                   IF Find(app.data.formats, w.format_id) = <<>>
                                     THEN "undefined" ELSE w.format_id))
          \/ \E tag \in Range(w.tags) : app' = OnSearchInput(app, tag)
    /\ UNCHANGED <<data, tz, now, out, text, escaped, store, files>>

\* the user clicks the subscribe button: subscribeToCalendar() shows the
\* modal when the list is not empty, an alert when it is
SubscribeClick ==
    /\ "subscribeCalendar" \in app.listeners
    /\ app.filteredWorkshops # <<>>
    /\ app' = [app EXCEPT !.modal = TRUE]
    /\ UNCHANGED <<data, tz, now, out, text, escaped, store, files>>

\* the user clicks the download button of the modal: downloadICS()
\* generates the calendar of the list, and the modal goes
ModalDownload ==
    /\ app.modal
    /\ app.filteredWorkshops # <<>>
    /\ out' = Call("generate", app.filteredWorkshops,
                   generate(app.filteredWorkshops, now,
                            ReadsBefore(app.filteredWorkshops,
                                        Len(app.filteredWorkshops))))
    /\ app' = [app EXCEPT !.modal = FALSE]
    /\ UNCHANGED <<data, tz, now, text, escaped, store, files>>

NextCatalogue ==
    \/ Construct
    \/ LoadSucceeds
    \/ LoadFails
    \/ SearchInput
    \/ FilterChange
    \/ ClearFiltersClick
    \/ SortChange
    \/ CardClick
    \/ SubscribeClick
    \/ ModalDownload

SpecCatalogue == InitCatalogue /\ [][NextCatalogue]_vars

(***************************************************************************)
(* buildDescription on its own.                                            *)
(***************************************************************************)
InitDescription == InitOf(DescriptionDataSets, {0})

NextDescription == Describe

SpecDescription == InitDescription /\ [][NextDescription]_vars

(***************************************************************************)
(* escapeText on its own, on every text of at most MaxLen characters and   *)
(* on undefined and null.                                                  *)
(***************************************************************************)
Chars == {"a", "n", BS, ";", ",", NL, CR}

Texts == SeqsUpTo(Chars, MaxLen) \cup {Undefined, Null}

InitEscape ==
    /\ data = NoData
    /\ tz = 0
    /\ now = 0
    /\ out = NoCall
    /\ text \in Texts
    /\ escaped = NotYet
    /\ store = <<>>
    /\ files = NoFiles
    /\ app = NoApp

Escape ==
    /\ escaped = NotYet
    /\ escaped' = escapeText(text)
    /\ UNCHANGED <<data, tz, now, out, text, store, files, app>>

NextEscape == Escape

SpecEscape == InitEscape /\ [][NextEscape]_vars

(***************************************************************************)
(* Reading a generated text: its lines, its VEVENT blocks, and what the    *)
(* claims expect of them.                                                  *)
(***************************************************************************)
Min(S) == CHOOSE x \in S : \A y \in S : x <= y

Indices(seq) == [i \in 1..Len(seq) |-> i]

\* the lines of a text: the pieces between its line breaks
Lines(doc) ==
    LET br == <<0>> \o SelectSeq(Indices(doc), LAMBDA i : doc[i] = NL)
                \o <<Len(doc) + 1>>
    IN  [k \in 1..(Len(br) - 1) |-> SubSeq(doc, br[k] + 1, br[k + 1] - 1)]

\* line l is the property `name`
IsLine(l, name) == IF l = <<>> THEN FALSE ELSE l[1] = name

\* the lines of ls that are the property `name`
LinesOf(ls, name) == SelectSeq(ls, LAMBDA l : IsLine(l, name))

\* the VEVENT blocks of a document, each from its BEGIN:VEVENT line to the
\* first END:VEVENT line after it
VEvents(ls) ==
    LET begins == SelectSeq(Indices(ls), LAMBDA i : ls[i] = <<"BEGIN:VEVENT">>)
        EndOf(b) ==
            LET ends == { e \in b..Len(ls) : ls[e] = <<"END:VEVENT">> }
            IN  IF ends = {} THEN Len(ls) ELSE Min(ends)
    IN  [k \in 1..Len(begins) |-> SubSeq(ls, begins[k], EndOf(begins[k]))]

NoRepeats(seq) == \A i, j \in DOMAIN seq : i # j => seq[i] # seq[j]

\* the (workshop, offering) pairs a workshop list stands for: for each
\* workshop of the list in turn, the offerings of the dataset that name it
ExpectedEvents(workshops) ==
    Flatten([i \in 1..Len(workshops) |->
        LET mine == SelectSeq(data.offerings,
                              LAMBDA o : o.workshop_id = workshops[i].id)
        IN  [k \in 1..Len(mine) |->
                [workshop |-> workshops[i], offering |-> mine[k]]]])

\* the line breaks aside, the two texts differ in DTSTAMP lines only
SameButDtstamp(a, b) ==
    /\ Len(a) = Len(b)
    /\ \A k \in 1..Len(a) :
          a[k] = b[k] \/ (IsLine(a[k], "DTSTAMP:") /\ IsLine(b[k], "DTSTAMP:"))

\* what the iCalendar TEXT escaping makes of one character
EscapedChar(c) ==
    CASE c = BS -> <<BS, BS>>
      [] c = ";" -> <<BS, ";">>
      [] c = "," -> <<BS, ",">>
      [] c = NL -> <<BS, "n">>
      [] c = CR -> <<>>
      [] OTHER -> <<c>>

\* the escaped form of a text; of an empty or absent text, the empty text
Escaped(t) ==
    IF t \in {<<>>, Undefined, Null} THEN <<>>
    ELSE Flatten([i \in 1..Len(t) |-> EscapedChar(t[i])])

(***************************************************************************)
(* The claims.                                                             *)
(***************************************************************************)

\* C1: in the document generate(workshops) returns, for a list of workshops
\* without repeats from a dataset whose workshop ids and offering ids are
\* pairwise distinct, every VEVENT has the one UID line
\* 'UID:<offering.id>@rds-workshops.ucsb.edu' of the offering it was built
\* from, and no two VEVENTs have the same UID.
C1_UidOfOfferingUnique ==
    (/\ out.op = "generate"
     /\ NoRepeats(out.arg)
     /\ NoRepeats([i \in DOMAIN data.workshops |-> data.workshops[i].id])
     /\ NoRepeats([i \in DOMAIN data.offerings |-> data.offerings[i].id]))
    => LET evs == VEvents(Lines(out.doc))
           exp == ExpectedEvents(out.arg)
       IN  /\ Len(evs) = Len(exp)
           /\ \A k \in 1..Len(evs) :
                 LinesOf(evs[k], "UID:")
                   = << <<"UID:">> \o exp[k].offering.id \o <<"@rds-workshops.ucsb.edu">> >>
           /\ \A j, k \in 1..Len(evs) :
                 j # k => LinesOf(evs[j], "UID:") # LinesOf(evs[k], "UID:")

\* C1 witness: a document of three or more VEVENTs made from two workshops
C1_Witness ==
    /\ out.op = "generate"
    /\ Len(out.arg) = 2
    /\ NoRepeats(out.arg)
    /\ Len(VEvents(Lines(out.doc))) >= 3
    /\ \E w \in Range(out.arg) : Len(OfferingsOf(w)) >= 2

\* C2: two calls of generate with the same dataset and the same workshop
\* list, at two instants, return documents that are the same line by line
\* but for the lines that start with 'DTSTAMP:'.
C2_SameButDtstamp ==
    (out.op = "generate" /\ out.prevDoc # NoDoc)
    => SameButDtstamp(Lines(out.prevDoc), Lines(out.doc))

\* C2 witness: the second of two calls on a list with events returned a
\* document other than the first
C2_Witness ==
    /\ out.op = "generate"
    /\ out.prevDoc # NoDoc
    /\ out.prevDoc # out.doc
    /\ Len(VEvents(Lines(out.doc))) >= 2

\* C3 as claimed: two calls of generateICS on the same event, at two
\* instants, return documents in which DTSTAMP is the only field whose
\* value differs; the UID is the same in both.
C3_IcsSameButDtstamp ==
    (out.op = "generateICS" /\ out.prevDoc # NoDoc)
    => /\ SameButDtstamp(Lines(out.prevDoc), Lines(out.doc))
       /\ LinesOf(Lines(out.prevDoc), "UID:") = LinesOf(Lines(out.doc), "UID:")

\* the title of the k-th VEVENT of the last document
TitleOf(k) ==
    IF out.op = "generate" THEN ExpectedEvents(out.arg)[k].workshop.title
    ELSE out.arg.title

\* the number of VEVENTs the last document is to hold
EventCount ==
    IF out.op = "generate" THEN Len(ExpectedEvents(out.arg)) ELSE 1

ExpectedAlarm(trigger, title, when) ==
    << <<"BEGIN:VALARM">>,
       <<trigger>>,
       <<"ACTION:DISPLAY">>,
       <<"DESCRIPTION:", "Reminder: ">> \o Escaped(title) \o <<when>>,
       <<"END:VALARM">> >>

C6_EmptyCalendar ==
    (out.op = "generate" /\ out.arg = <<>>)
    => LET ls == Lines(out.doc)
       IN  /\ ls[1] = <<"BEGIN:VCALENDAR">>
           /\ ls[Len(ls)] = <<"END:VCALENDAR">>
           /\ \A h \in {"VERSION:2.0", "PRODID:-//UCSB Library//RDS Workshops//EN",
                        "CALSCALE:GREGORIAN", "METHOD:PUBLISH",
                        "X-WR-CALNAME:RDS Workshops",
                        "X-WR-TIMEZONE:America/Los_Angeles",
                        "X-WR-CALDESC:Research Data Services Workshop Catalogue"} :
                 \E i \in 1..Len(ls) : ls[i] = <<h>>
           /\ LinesOf(ls, "BEGIN:VEVENT") = <<>>

\* C6 witness: generate was called on the empty list, the dataset holding
\* offerings
C6_Witness ==
    /\ out.op = "generate"
    /\ out.arg = <<>>
    /\ data.offerings # <<>>

\* C7: generate(workshops) emits exactly one VEVENT for each pair of a
\* workshop of the list and an offering of the dataset that names it: none
\* for a workshop without offerings, the VEVENTs in the order of the list
\* and, within a workshop, in the order of the dataset's offerings.
C7_OneEventPerPair ==
    (out.op = "generate")
    => LET evs == VEvents(Lines(out.doc))
           exp == ExpectedEvents(out.arg)
       IN  /\ Len(LinesOf(Lines(out.doc), "BEGIN:VEVENT")) = Len(exp)
           /\ Len(LinesOf(Lines(out.doc), "END:VEVENT")) = Len(exp)
           /\ Len(evs) = Len(exp)
           /\ \A k \in 1..Len(evs) :
                 /\ evs[k][2] = <<"UID:">> \o exp[k].offering.id
                                   \o <<"@rds-workshops.ucsb.edu">>
                 /\ evs[k][6] = <<"SUMMARY:">> \o Escaped(exp[k].workshop.title)

\* C7 witness: a list that holds a workshop without offerings, and a
\* document of two or more VEVENTs
C7_Witness ==
    /\ out.op = "generate"
    /\ \E i \in 1..Len(out.arg) :
          \A j \in 1..Len(data.offerings) :
             data.offerings[j].workshop_id # out.arg[i].id
    /\ Len(VEvents(Lines(out.doc))) >= 2

Absent == {<<>>, Undefined, Null}

DigitTokens == {"0", "1", "2", "3", "4", "5", "6", "7", "8", "9"}

DigitValue(t) == CHOOSE n \in 0..9 : Digit(n) = t

TwoDigits(v, i) == 10 * DigitValue(v[i]) + DigitValue(v[i + 1])

\* v is YYYYMMDDTHHMMSS, without a zone, of the local time of the instant
\* the date-time s names
FloatingLocal(v, s) ==
    /\ Len(v) = 15
    /\ v[9] = "T"
    /\ \A i \in (1..15) \ {9} : v[i] \in DigitTokens
    /\ SubSeq(v, 1, 4) = NumStr(Epoch.year)
    /\ NewDate([mo |-> TwoDigits(v, 5), d |-> TwoDigits(v, 7),
                h |-> TwoDigits(v, 10), mi |-> TwoDigits(v, 12),
                s |-> TwoDigits(v, 14), z |-> ""])
         = NewDate(s)

\* the first token of each line
Names(ls) == [i \in 1..Len(ls) |-> IF ls[i] = <<>> THEN "" ELSE ls[i][1]]

\* C8: every VEVENT of createEvent has its lines in this order:
\* BEGIN:VEVENT, UID, DTSTAMP, DTSTART, DTEND, SUMMARY, DESCRIPTION,
\* LOCATION, URL only when the offering has a registration URL,
\* STATUS:CONFIRMED, SEQUENCE:0, the 24-hour VALARM, the 1-hour VALARM,
\* END:VEVENT; DTSTART and DTEND are the floating local YYYYMMDDTHHMMSS of
\* the offering's start and end, without 'Z'.
C8_FieldOrder ==
    (out.op = "generate")
    => LET evs == VEvents(Lines(out.doc))
           exp == ExpectedEvents(out.arg)
       IN  /\ Len(evs) = Len(exp)
           /\ \A k \in 1..Len(evs) :
                /\ Names(evs[k])
                     = <<"BEGIN:VEVENT", "UID:", "DTSTAMP:", "DTSTART:", "DTEND:",
                         "SUMMARY:", "DESCRIPTION:", "LOCATION:">>
                       \o (IF exp[k].offering.registration_url \in Absent
                             THEN <<>> ELSE <<"URL:">>)
                       \o <<"STATUS:CONFIRMED", "SEQUENCE:0",
                            "BEGIN:VALARM", "TRIGGER:-PT24H", "ACTION:DISPLAY",
                            "DESCRIPTION:", "END:VALARM",
                            "BEGIN:VALARM", "TRIGGER:-PT1H", "ACTION:DISPLAY",
                            "DESCRIPTION:", "END:VALARM",
                            "END:VEVENT">>
                /\ FloatingLocal(Tail(evs[k][4]), exp[k].offering.start)
                /\ FloatingLocal(Tail(evs[k][5]), exp[k].offering.end)

\* C8 witness: a document with an event that has a URL line and one that
\* has none, in a zone other than UTC
C8_Witness ==
    /\ out.op = "generate"
    /\ tz # 0
    /\ \E j, k \in 1..Len(VEvents(Lines(out.doc))) :
          /\ LinesOf(VEvents(Lines(out.doc))[j], "URL:") # <<>>
          /\ LinesOf(VEvents(Lines(out.doc))[k], "URL:") = <<>>

\* text `line` starts with the text `prefix`
StartsWith(line, prefix) ==
    IF Len(line) < Len(prefix) THEN FALSE
    ELSE SubSeq(line, 1, Len(prefix)) = prefix

\* C9: missing optional text fields are defaulted in the VEVENT: the
\* description body is workshop.description, else workshop.summary, else
\* the empty text; LOCATION is 'TBA' when the offering's location is empty
\* or absent and the escaped location otherwise; the URL line is there
\* exactly when registration_url is non-empty, and carries it unescaped.
C9_Defaults ==
    (out.op = "generate")
    => LET evs == VEvents(Lines(out.doc))
           exp == ExpectedEvents(out.arg)
       IN  /\ Len(evs) = Len(exp)
           /\ \A k \in 1..Len(evs) :
                LET w == exp[k].workshop
                    o == exp[k].offering
                    body == IF w.description \notin Absent THEN w.description
                            ELSE IF w.summary \notin Absent THEN w.summary
                            ELSE <<>>
                IN  /\ StartsWith(evs[k][7],
                                  <<"DESCRIPTION:">> \o Escaped(body)
                                    \o <<BS, "n", BS, "n", "---", BS, "n">>)
                    /\ LinesOf(evs[k], "LOCATION:")
                         = << <<"LOCATION:">>
                                \o (IF o.location \in Absent THEN <<"TBA">>
                                    ELSE Escaped(o.location)) >>
                    /\ LinesOf(evs[k], "URL:")
                         = IF o.registration_url \in Absent THEN <<>>
                           ELSE << <<"URL:">> \o o.registration_url >>

\* C9 witness: an event of a workshop without description, of an offering
\* without location and without URL
C9_Witness ==
    /\ out.op = "generate"
    /\ \E k \in 1..Len(ExpectedEvents(out.arg)) :
          /\ ExpectedEvents(out.arg)[k].workshop.description = Undefined
          /\ ExpectedEvents(out.arg)[k].workshop.summary # <<>>
          /\ ExpectedEvents(out.arg)[k].offering.location = <<>>
          /\ ExpectedEvents(out.arg)[k].offering.registration_url = <<>>
          /\ Len(VEvents(Lines(out.doc))) >= k

MetadataLabels ==
    {"Format: ", "Instructor(s): ", "Research Area(s): ", "Quarter: ", "Register: "}

\* C10 as claimed: in the text of buildDescription no line 'Format: ',
\* 'Instructor(s): ', 'Research Area(s): ', 'Quarter: ' or 'Register: ' has
\* an empty value or the text 'undefined' or 'null' in it.
C10_NoBlankMetadata ==
    (out.op = "buildDescription")
    => \A l \in Range(Lines(out.doc)) :
          (IF l = <<>> THEN FALSE ELSE l[1] \in MetadataLabels)
          => /\ Tail(l) # <<>>
             /\ "undefined" \notin Range(l)
             /\ "null" \notin Range(l)

\* C5: for every non-empty string, escapeText returns the substitution,
\* character by character, of backslash by two backslashes, ';' by
\* backslash ';', ',' by backslash ',', newline by backslash 'n', carriage
\* return by nothing, every other character kept: no backslash the
\* escaping puts in is doubled, and a text with none of the five is
\* returned as it is.
C5_EscapePerCharacter ==
    (escaped # NotYet /\ text \notin Absent)
    => /\ escaped = Flatten([i \in 1..Len(text) |-> EscapedChar(text[i])])
       /\ (Range(text) \cap {BS, ";", ",", NL, CR} = {} => escaped = text)

\* C5 witness: a text with a semicolon, a backslash and a newline escaped
C5_Witness ==
    /\ escaped # NotYet
    /\ text = <<";", BS, NL>>
    /\ escaped = <<BS, ";", BS, BS, BS, "n">>

\* the items of ids found in the lookup, in the order of ids
Resolved(items, ids) ==
    LET found == SelectSeq(ids, LAMBDA id : \E x \in Range(items) : x.id = id)
    IN  [k \in 1..Len(found) |-> CHOOSE x \in Range(items) : x.id = found[k]]

\* the line `label` of a description for the texts of a list, the empty
\* ones left out: no line when no text is left
ListLine(label, texts) ==
    LET kept == SelectSeq(texts, LAMBDA x : x \notin Absent)
    IN  IF kept = <<>> THEN <<>>
        ELSE << <<label>> \o Join(kept, <<",", " ">>) >>

C12_AbsentGivesEmpty ==
    (escaped # NotYet)
    => /\ escaped # TypeError
       /\ Range(escaped) \cap {"null", "undefined", "#null", "#undefined"} = {}
       /\ text \in Absent => escaped = <<>>

\* C12 witness: escapeText was called on undefined
C12_Witness ==
    /\ escaped = <<>>
    /\ text = Undefined

\* the value of the parameter `name` of a link, as it is written
ParamOf(url, name) ==
    LET from == CHOOSE i \in 1..Len(url) - 1 :
                   /\ url[i] = name
                   /\ url[i + 1] = "="
                   /\ url[i - 1] \in {"&"} \cup {url[1]}
        rest == SubSeq(url, from + 2, Len(url))
    IN  BeforeFirst(rest, "&")

\* ParamOf where the link has the parameter, Undefined where it has not
Param(url, name) ==
    IF \E i \in 2..Len(url) - 1 :
         url[i] = name /\ url[i + 1] = "=" /\ url[i - 1] \in {"&"} \cup {url[1]}
      THEN ParamOf(url, name)
      ELSE Undefined

\* C13: for every event with end >= start, the parameter dur of the Yahoo
\* link is the duration m = floor((end - start) / 60000) in minutes,
\* written as floor(m / 60) padded with zeros to two digits and m mod 60
\* padded with zeros to two digits: 0130 for 90 minutes, 0045 for 45, 0000
\* for none.
C13_YahooDuration ==
    (out.op = "generateLinks" /\ out.arg.end >= out.arg.start)
    => LET m == (out.arg.end - out.arg.start) \div 60000
           dur == Param(out.doc.yahoo, "dur")
       IN  /\ dur = PadStart2(NumStr(m \div 60)) \o PadStart2(NumStr(m % 60))
           /\ m = 90 => dur = <<"0", "1", "3", "0">>
           /\ m = 45 => dur = <<"0", "0", "4", "5">>
           /\ m = 0 => dur = <<"0", "0", "0", "0">>

\* C13 witness: the links of an event of 90 minutes and 59 seconds
C13_Witness ==
    /\ out.op = "generateLinks"
    /\ out.arg.end - out.arg.start = 90 * 60000 + 59000
    /\ Param(out.doc.yahoo, "dur") = <<"0", "1", "3", "0">>

\* the tokens that URLSearchParams does not write as they are
EncodedTokens ==
    {";", ",", NL, CR, BS, " ", ":", "/", "Format: ", "Instructor(s): ",
     "Research Area(s): ", "Quarter: ", "Register: ", "More info: ",
     "/calendar/action/compose", "https://example.edu/reg"}

\* the text a written parameter value stands for
UrlDecode(v) ==
    [i \in 1..Len(v) |->
        IF \E c \in EncodedTokens : UrlEncodeToken(c) = v[i]
          THEN CHOOSE c \in EncodedTokens : UrlEncodeToken(c) = v[i]
          ELSE v[i]]

\* the names of the parameters of a link, in their order
ParamNames(url) ==
    LET at == SelectSeq(Indices(url), LAMBDA i : i > 1 /\ url[i] = "=")
    IN  [k \in 1..Len(at) |-> url[at[k] - 1]]

\* v is YYYYMMDDTHHMMSSZ of the UTC time of the instant t
UtcStamp(v, t) ==
    /\ Len(v) = 16
    /\ v[9] = "T"
    /\ v[16] = "Z"
    /\ \A i \in (1..15) \ {9} : v[i] \in DigitTokens
    /\ SubSeq(v, 1, 4) = NumStr(Epoch.year)
    /\ NewDate([mo |-> TwoDigits(v, 5), d |-> TwoDigits(v, 7),
                h |-> TwoDigits(v, 10), mi |-> TwoDigits(v, 12),
                s |-> TwoDigits(v, 14), z |-> "Z"])
         = t

\* C14: the Google link of an event is
\* 'https://calendar.google.com/calendar/render?' followed by the
\* parameters action=TEMPLATE, text (the title), details, location and
\* dates; dates is the UTC stamp YYYYMMDDTHHMMSSZ of the start, '/', and
\* that of the end; details is the description when the event has no url,
\* and the description, a blank line and 'More info: <url>' when it has.
C14_GoogleLink ==
    (out.op = "generateLinks")
    => LET url == out.doc.google
           event == out.arg
           dates == UrlDecode(Param(url, "dates"))
       IN  /\ url[1] = "https://calendar.google.com/calendar/render?"
           /\ ParamNames(url) = <<"action", "text", "details", "location", "dates">>
           /\ Param(url, "action") = <<"TEMPLATE">>
           /\ UrlDecode(Param(url, "text")) = event.title
           /\ UrlDecode(Param(url, "location")) = event.location
           /\ UrlDecode(Param(url, "details"))
                = IF event.url = <<>> THEN event.description
                  ELSE event.description \o <<NL, NL, "More info: ">> \o event.url
           /\ Len(dates) = 33
           /\ dates[17] = "/"
           /\ UtcStamp(SubSeq(dates, 1, 16), event.start)
           /\ UtcStamp(SubSeq(dates, 18, 33), event.end)

\* C14 witness: the links of an event with a url, of an offering whose
\* times are local times of a zone that is not UTC
C14_Witness ==
    /\ out.op = "generateLinks"
    /\ tz # 0
    /\ out.arg.url # <<>>
    /\ \E o \in Range(data.offerings) : o.start.z = ""
    /\ Len(UrlDecode(Param(out.doc.google, "dates"))) = 33

\* the lines of a document before its first VEVENT
Header(ls) ==
    LET at == { i \in 1..Len(ls) : ls[i] = <<"BEGIN:VEVENT">> }
    IN  IF at = {} THEN ls ELSE SubSeq(ls, 1, Min(at) - 1)

\* C15 as claimed: the text of generateICS for the event of an offering is
\* the document generate gives for the workshop of that offering alone:
\* the same header lines, the same fields of the VEVENT in the same order,
\* SEQUENCE:0 among them, and the same UID, that of the offering.
C15_IcsIsGeneratorDocument ==
    (out.op = "generateICS")
    => \A o \in Range(data.offerings) :
          LET w == Find(data.workshops, o.workshop_id)
          IN  (w # <<>> /\ EventOf(o) = <<out.arg>> /\ OfferingsOf(w[1]) = <<o>>)
              => LET ics == Lines(out.doc)
                     doc == Lines(generate(w, now, 0))
                 IN  /\ Header(ics) = Header(doc)
                     /\ Names(VEvents(ics)[1]) = Names(VEvents(doc)[1])
                     /\ LinesOf(ics, "SEQUENCE:0") # <<>>
                     /\ LinesOf(ics, "UID:") = LinesOf(doc, "UID:")

\* C16 as claimed: generateLinks changes nothing outside its return value,
\* the object-URL store of the browser included, and two calls on the same
\* event return the same five values.
C16_LinksPure ==
    (out.op = "generateLinks")
    => /\ store = <<>>
       /\ out.prevDoc # NoDoc => out.prevDoc = out.doc

\* C18 as claimed: the event createAddToCalendarButton builds for an
\* offering has the description buildDescription gives for the workshop
\* and the offering.
C18_ButtonDescription ==
    (out.op = "generateLinks")
    => \A o \in Range(data.offerings) :
          (EventOf(o) = <<out.arg>>)
          => out.arg.description
               = buildDescription(Find(data.workshops, o.workshop_id)[1], o)

\* the names of the files of the calendars directory
FileNames == { f.name : f \in files }

\* C17 as claimed: after a run of the batch script the calendars directory
\* holds all.ics, one file area-<id>.ics, audience-<id>.ics,
\* format-<id>.ics and department-<id>.ics for each area, audience, format
\* and department of the dataset, and one file <name>.ics for each named
\* combination of filters.
C17_OneFilePerFilter ==
    (files # NoFiles)
    => /\ <<"all.ics">> \in FileNames
       /\ \A x \in Range(data.areas) : <<"area-", x.id, ".ics">> \in FileNames
       /\ \A x \in Range(data.audiences) : <<"audience-", x.id, ".ics">> \in FileNames
       /\ \A x \in Range(data.formats) : <<"format-", x.id, ".ics">> \in FileNames
       /\ \A x \in Range(data.departments) :
             <<"department-", x.id, ".ics">> \in FileNames
       /\ \A c \in Range(combinations) : <<c.name, ".ics">> \in FileNames

\* C19: when the load of the dataset fails, init ends in an error state:
\* the failure message is shown, data stays null, no ICalGenerator is
\* made, no listener is registered and no list is rendered, and no later
\* event of the user reaches the filtering or the generation of ICS.
C19_LoadFailure ==
    (app.phase = "error")
    => /\ app.shown = "error"
       /\ app.data = Null
       /\ ~app.icalGenerator
       /\ app.listeners = {}
       /\ app.filteredWorkshops = <<>>
       /\ app.resultsCount = <<>>
       /\ out = NoCall
       /\ ~ENABLED (SearchInput \/ FilterChange \/ ClearFiltersClick \/ SortChange
                      \/ CardClick \/ SubscribeClick \/ ModalDownload)

\* C19 witness: the load failed because the response was not ok
C19_Witness ==
    /\ app.phase = "error"
    /\ app.error = "response not ok"
    /\ app.shown = "error"

\* the text is in the title, the summary, the description or a tag of the
\* workshop, the case of the letters apart
InSomeField(w, search) ==
    \E field \in {w.title, w.summary, w.description} \cup Range(w.tags) :
       /\ field \notin Absent
       /\ IncludesText(toLowerCase(field), toLowerCase(search))

\* C20 as claimed: once the page is initialised, and after every event of
\* search, select, clear-filters, sort and card click, filteredWorkshops
\* holds, each once, exactly the workshops of the dataset that are active
\* and satisfy every filter that is set: area, audience, department and
\* instructor by membership, format by equality, search as a substring of
\* title, summary, description or tags whatever the case of the letters.
C20_FilteredWorkshops ==
    (app.phase = "ready")
    => /\ NoRepeats(app.filteredWorkshops)
       /\ Range(app.filteredWorkshops)
            = { w \in Range(app.data.workshops) :
                  /\ w.is_active
                  /\ (app.filters.search # <<>> => InSomeField(w, app.filters.search))
                  /\ (app.filters.area # "" => app.filters.area \in Range(w.area_ids))
                  /\ (app.filters.audience # ""
                        => app.filters.audience \in Range(w.audience_ids))
                  /\ (app.filters.department # ""
                        => app.filters.department \in Range(w.department_ids))
                  /\ (app.filters.instructor # ""
                        => app.filters.instructor \in Range(w.instructor_ids))
                  /\ (app.filters.format # "" => w.format_id = app.filters.format) }

\* the filter a file of the calendars directory is named after
FilterOfName(name) ==
    IF name = <<"all.ics">> THEN NoFilters
    ELSE IF Len(name) = 3
      THEN [NoFilters EXCEPT ![CASE name[1] = "area-" -> "area"
                                 [] name[1] = "audience-" -> "audience"
                                 [] name[1] = "format-" -> "format"
                                 [] name[1] = "department-" -> "department"] = name[2]]
    ELSE (CHOOSE c \in Range(combinations) : c.name = name[1]).filters

\* the workshop is active and has every field the filter asks for
ActiveAndMatching(w, filters) ==
    /\ w.is_active = TRUE
    /\ filters.area \in {""} \cup Range(w.area_ids)
    /\ filters.audience \in {""} \cup Range(w.audience_ids)
    /\ filters.department \in {""} \cup Range(w.department_ids)
    /\ filters.instructor \in {""} \cup Range(w.instructor_ids)
    /\ filters.format \in {"", w.format_id}

\* the ids of the offerings that have a VEVENT in a document
EventIds(doc) ==
    { SubSeq(l, 2, Len(l) - 1) : l \in Range(LinesOf(Lines(doc), "UID:")) }

\* C21: every file the batch script writes for a filter has a VEVENT for
\* an offering exactly when the workshop of the offering is active and
\* matches every field of the filter; all.ics has the offerings of all
\* the active workshops and of no other.
C21_FilesHoldMatchingOfferings ==
    \A f \in files :
       /\ EventIds(f.content)
            = { o.id : o \in { x \in Range(data.offerings) :
                                 \E w \in Range(data.workshops) :
                                    /\ w.id = x.workshop_id
                                    /\ ActiveAndMatching(w, FilterOfName(f.name)) } }
       /\ Len(VEvents(Lines(f.content))) = Cardinality(EventIds(f.content))

\* C21 witness: the file of area-2 was written for a dataset where a
\* workshop of area-2 is active and another is not
C21_Witness ==
    /\ \E f \in files : f.name = <<"area-", "area-2", ".ics">>
    /\ \E w \in Range(data.workshops) :
          ~w.is_active /\ "area-2" \in Range(w.area_ids)
    /\ \E f \in files : f.name = <<"online-grad", ".ics">>

\* the workshops and offerings of the dataset, paired
Pairs == { <<w, o>> : w \in Range(data.workshops), o \in Range(data.offerings) }

\* C22: the ICalGenerator of the browser and that of the batch script are
\* equivalent: for every dataset, list of workshops and instant, their
\* generate, createEvent, buildDescription, wrapInCalendar, formatDate and
\* escapeText return the same text.
C22_GeneratorsEquivalent ==
    /\ \A f \in files :
          LET workshops == filterWorkshops(FilterOfName(f.name))
          IN  f.content
                = generate(workshops, f.mtime, ReadsBefore(workshops, Len(workshops)))
    /\ \A workshops \in SeqsUpTo(Range(data.workshops), MaxList) :
          generate(workshops, now, 1) = BatchGenerate(workshops, now, 1)
    /\ \A w \in Range(data.workshops) :
          createEvent(w, 0, now, 1) = BatchCreateEvent(w, 0, now, 1)
    /\ \A p \in Pairs :
          buildDescription(p[1], p[2]) = BatchBuildDescription(p[1], p[2])
    /\ \A events \in {<<>>, <<"BEGIN:VEVENT", NL, "END:VEVENT">>} :
          wrapInCalendar(events) = BatchWrapInCalendar(events)
    /\ \A date \in {now} \cup { NewDate(o.start) : o \in Range(data.offerings) } :
          formatDate(date) = BatchFormatDate(date)
    /\ \A t \in Texts : escapeText(t) = BatchEscapeText(t)

\* C22 witness: the script wrote a file of two events, which is the text
\* the generator of the browser gives for the same list at the same
\* instant, later than the start of the run
C22_Witness ==
    \E f \in files :
       /\ f.mtime > 0
       /\ Len(VEvents(Lines(f.content))) = 2
       /\ f.content = generate(filterWorkshops(FilterOfName(f.name)), f.mtime, 2)

\* the depth of the component a BEGIN or END line names: VCALENDAR 1,
\* VEVENT 2, VALARM 3, and 0 for any other line
LevelOf(l, word) ==
    CASE l = <<word \o "VCALENDAR">> -> 1
      [] l = <<word \o "VEVENT">> -> 2
      [] l = <<word \o "VALARM">> -> 3
      [] OTHER -> 0

\* from line i on and `depth` components open, every BEGIN line opens the
\* component of the next depth, every END line closes the innermost open
\* one, and none is open after the last line
RECURSIVE Nested(_, _, _)
Nested(ls, i, depth) ==
    IF i > Len(ls) THEN depth = 0
    ELSE LET b == LevelOf(ls[i], "BEGIN:")
             e == LevelOf(ls[i], "END:")
         IN  CASE b > 0 -> b = depth + 1 /\ Nested(ls, i + 1, b)
               [] e > 0 -> e = depth /\ Nested(ls, i + 1, e - 1)
               [] OTHER -> Nested(ls, i + 1, depth)

RECURSIVE Sum(_)
Sum(seq) == IF seq = <<>> THEN 0 ELSE Head(seq) + Sum(Tail(seq))

\* the lines of a document of these events when no text adds a line: nine
\* of the calendar, twenty-one of each event, and one more of an event with
\* a URL
LinesExpected(events) ==
    9 + Sum([k \in 1..Len(events) |->
                IF Falsy(events[k].offering.registration_url) THEN 21 ELSE 22])

\* C23: no text of the dataset adds a line to a document of generate:
\* whatever the title, description, location, registration_url and offering
\* id, line breaks included, the document has no empty line, each BEGIN line
\* is closed by its END line in proper nesting (VALARM in VEVENT in
\* VCALENDAR), and the number of its lines is that of its events and of the
\* URLs among them.
C23_NoAddedLine ==
    out.op = "generate"
    => LET ls == Lines(out.doc)
       IN  /\ \A i \in 1..Len(ls) : ls[i] # <<>>
           /\ Nested(ls, 1, 0)
           /\ Len(ls) = LinesExpected(ExpectedEvents(out.arg))

\* v is null, for a v that is null or a dataset (a record of its lists)
IsNull(v) == IF Cardinality(DOMAIN v) = 1 THEN v = Null ELSE FALSE

\* a step of a handler of the object: of a listener of setupEventListeners
\* or of the download button of the modal
HandlerStep ==
    \/ SearchInput
    \/ FilterChange
    \/ ClearFiltersClick
    \/ SortChange
    \/ CardClick
    \/ SubscribeClick
    \/ ModalDownload

\* C24: however the events of the page fall between the steps of init(), a
\* handler of the object (search, filter, sort, clear, card click,
\* subscribe, download) can run only once the dataset is loaded and the
\* ICalGenerator made: while data or icalGenerator is null, no element has
\* a listener, the modal is not shown and no handler can take a step.
C24_HandlersAfterLoad ==
    /\ (app.listeners # {} \/ app.modal) => (~IsNull(app.data) /\ app.icalGenerator)
    /\ (ENABLED HandlerStep) => (~IsNull(app.data) /\ app.icalGenerator)

\* C24 witness: after the load, the sort handler, the subscribe handler and
\* the download handler have run
C24_Witness ==
    /\ app.phase = "ready"
    /\ ~IsNull(app.data)
    /\ app.icalGenerator
    /\ app.sortBy = "title"
    /\ out.op = "generate"

\* a step of a listener that changes a filter: the search input, a select,
\* the clear button, or an instructor, format or tag of a card
FilterStep ==
    \/ SearchInput
    \/ FilterChange
    \/ ClearFiltersClick
    \/ CardClick

\* the filter of key `key` is not set
Unset(filters, key) == IF key = "search" THEN filters[key] = <<>> ELSE filters[key] = ""

\* the query of the URL holds one parameter for each filter that is set
\* and none for one that is not, and read back gives the filters
RoundTrips ==
    /\ \A k \in DOMAIN FilterKeys :
          Len(SelectSeq(app.query, LAMBDA pair : pair[1] = FilterKeys[k]))
            = IF Unset(app.filters, FilterKeys[k]) THEN 0 ELSE 1
    /\ Len(app.query) = Cardinality({ k \in DOMAIN FilterKeys :
                                        ~Unset(app.filters, FilterKeys[k]) })
    /\ getFiltersFromURL(app.query) = app.filters

\* the object after the page is loaded again from the URL of a, with the
\* same dataset
Reloaded(a) ==
    LET b == Constructed(a.query)
    IN  filterAndDisplayWorkshops(
          [b EXCEPT !.phase = "ready", !.data = a.data, !.icalGenerator = TRUE,
                    !.listeners = Listeners,
                    !.controls = ControlsOf(a.data, b.filters)])

\* the state is one a filter step leaves: a filter step repeated gives the
\* state it gave, so these are the states a filter step takes to themselves
AfterFilterStep == app.phase = "ready" /\ ENABLED (FilterStep /\ UNCHANGED app)

\* C25 as stated: after every step that changes a filter, the URL of
\* updateURL holds one parameter for each filter that is set and none for
\* one that is not, getFiltersFromURL of it gives the filters of the
\* object, and the page loaded again from it has the same filteredWorkshops.
C25_UrlRoundTrips ==
    AfterFilterStep
    => /\ RoundTrips
       /\ Reloaded(app).filteredWorkshops = app.filteredWorkshops

\* C25 amended: in every state of the loaded page, so after every step
\* that changes a filter, the URL of updateURL holds one parameter for each
\* filter that is set and none for one that is not, getFiltersFromURL of it
\* gives the filters of the object, and the page loaded again from it has
\* the same workshops in filteredWorkshops, in the same order when the sort
\* order is the default one.
C25_UrlRoundTripsButSort ==
    app.phase = "ready"
    => /\ RoundTrips
       /\ Range(Reloaded(app).filteredWorkshops) = Range(app.filteredWorkshops)
       /\ (app.sortBy = "date"
             => Reloaded(app).filteredWorkshops = app.filteredWorkshops)

\* C25 witness: a filter step left a search text and an area in the URL and
\* two workshops in the list, sorted by title; the URL read back gives the
\* filters, and the page loaded again has the two workshops in the other
\* order
C25_Witness ==
    /\ AfterFilterStep
    /\ app.sortBy = "title"
    /\ app.filters.search # <<>>
    /\ app.filters.area # ""
    /\ Len(app.query) = 2
    /\ getFiltersFromURL(app.query) = app.filters
    /\ Len(app.filteredWorkshops) = 2
    /\ Reloaded(app).filteredWorkshops # app.filteredWorkshops
    /\ Range(Reloaded(app).filteredWorkshops) = Range(app.filteredWorkshops)

====
